---- MODULE Spec2Model ----
(***************************************************************************)
(* A model of one council session: CouncilOrchestrator.run_full_council    *)
(* (scripts/council.py) with the member fan-out of                         *)
(* UnifiedLLMClient.query_members_parallel (scripts/unified_client.py),    *)
(* the ranking parser and aggregator, and the merge decision made by       *)
(* CouncilOrchestrator._handle_merge on top of WorktreeManager             *)
(* (scripts/worktree_manager.py).                                          *)
(*                                                                         *)
(* Member indices are 0-based as in the code; sequences are 1-based, so    *)
(* member i of the configuration is members[i + 1].                        *)
(***************************************************************************)
EXTENDS Integers, Sequences, FiniteSets, TLC

\* Number of configured council members (COUNCIL_MODELS is configuration,
\* not a program constant).
MemberCount == 2

\* Model names a configuration may use; two members may carry the same name.
Names == {"m1", "m2"}

\* The marker the parser looks for, and the two kinds of label it accepts.
Marker == "FINAL RANKING:"
Kinds == {"Response", "Proposal"}

\* chr(65 + i) for i in 0..25.
Letters ==
  <<"A", "B", "C", "D", "E", "F", "G", "H", "I", "J", "K", "L", "M",
    "N", "O", "P", "Q", "R", "S", "T", "U", "V", "W", "X", "Y", "Z">>

None == "None"
NoTarget == -1

VARIABLES
  members,            \* config.get_council_members(): sequence of full names
  no_commit,          \* MergeOptions.no_commit of a call made through CouncilAPI
  use_worktrees,      \* argument of run_full_council
  merge_mode,         \* argument of run_full_council ("unread" until line 422)
  merge_member,       \* argument of run_full_council (1-based index or None)
  confirm_merge,      \* argument of run_full_council
  pc,                 \* position of the orchestrating flow in run_full_council
  worktrees,          \* member indices whose working copy exists on disk
  worktree_paths,     \* keys of the local dict worktree_paths of Stage 1
  tasks,              \* per member: the state of its invocation in the fan-out
  responses,          \* what query_members_parallel returned to the stage
  stage1_results,
  label_to_model,
  stage2_results,
  aggregate_rankings,
  chairman,           \* the state of the chairman's invocation in Stage 3
  stage3_result,      \* the 'response' of stage3_synthesize_final's result
  merge_result,
  merge_log,          \* what _handle_merge asked and called, with the outcomes
  target_member,      \* member_index of the Stage-1 entry _handle_merge selected
  commits,            \* member indices whose workspace branch got the commit
  main_line,          \* integrations applied to the main repository, in order
  returned,           \* what run_full_council handed back: none, error, result, raised
  repo,               \* the git repository and worktrees_dir, as WorktreeManager finds them
  model_str,          \* one entry of COUNCIL_MODELS, as its '/'-separated segments
  openrouter_api_key, \* whether OPENROUTER_API_KEY is set
  council_member,     \* the dict Config.__init__ makes of model_str
  provider_call,      \* what query_member did with council_member
  completed,          \* the members whose invocation resolved, in the order they did
  processes,          \* directories in which a member process is running unawaited
  ranking_prompt,     \* the one prompt stage2_collect_rankings sends
  call                \* one call of an apply_changes_* function of WorktreeManager

vars ==
  <<members, no_commit, use_worktrees, merge_mode, merge_member, confirm_merge, pc,
    worktrees, worktree_paths, tasks, responses, stage1_results,
    label_to_model, stage2_results, aggregate_rankings, chairman,
    stage3_result, merge_result, merge_log, target_member, commits, main_line,
    returned, repo, model_str, openrouter_api_key, council_member, provider_call,
    completed, processes, ranking_prompt, call>>

\* The variables of Config and of the provider dispatch.
ConfigVars == <<model_str, openrouter_api_key, council_member, provider_call>>

Indices == 0 .. (MemberCount - 1)

(***************************************************************************)
(* Texts.  A text (a member's stdout) is a sequence of tokens: the marker, *)
(* a list item "<n>. <kind> <letter>", a label "<kind> <letter>" that is   *)
(* not a numbered item, or other prose.  A label is <<kind, letter>>.      *)
(***************************************************************************)
MarkerTok == <<"marker", "", "">>
ProseTok == <<"prose", "", "">>
Item(kind, letter) == <<"numbered", kind, letter>>
Bare(kind, letter) == <<"bare", kind, letter>>
LabelOf(tok) == <<tok[2], tok[3]>>

\* chr(65 + i), i the 0-based position in the Stage-1 result list.
Chr65(i) == Letters[i + 1]

\* f"Response {label}", the key used by label_to_model.
ResponseLabel(i) == <<"Response", Chr65(i)>>

RECURSIVE IndexOfMarker(_, _)
\* Position of the first marker at or after position p, 0 if there is none.
IndexOfMarker(text, p) ==
  IF p > Len(text) THEN 0
  ELSE IF text[p] = MarkerTok THEN p
  ELSE IndexOfMarker(text, p + 1)

\* ranking_text.split("FINAL RANKING:")[1]: what lies between the first
\* marker and the second one (or the end of the text).
RankingSection(text) ==
  LET first == IndexOfMarker(text, 1)
      second == IndexOfMarker(text, first + 1)
      last == IF second = 0 THEN Len(text) ELSE second - 1
  IN SubSeq(text, first + 1, last)

RECURSIVE NumberedMatches(_)
\* re.findall(r'\d+\.\s*(?:Response|Proposal)\s+[A-Z]', section), each match
\* cut down to its "<kind> <letter>" part.
NumberedMatches(section) ==
  IF section = <<>> THEN <<>>
  ELSE IF Head(section)[1] = "numbered" /\ Head(section)[2] \in Kinds
       THEN <<LabelOf(Head(section))>> \o NumberedMatches(Tail(section))
       ELSE NumberedMatches(Tail(section))

_parse_ranking_from_text(ranking_text) ==
  IF IndexOfMarker(ranking_text, 1) = 0 THEN <<>>
  ELSE NumberedMatches(RankingSection(ranking_text))

(***************************************************************************)
(* Aggregation.  A score is the mean sum(scores) / len(scores), kept as a  *)
(* fraction in lowest terms so that equal means are equal values.          *)
(***************************************************************************)
RECURSIVE Gcd(_, _)
Gcd(a, b) == IF b = 0 THEN a ELSE Gcd(b, a % b)

\* Mutant: the mean is taken with integer division.
Mean_Floor(sum, n) == [num |-> sum \div n, den |-> 1]

Mean(sum, n) == [num |-> sum \div Gcd(sum, n), den |-> n \div Gcd(sum, n)]

ScoreGreater(a, b) == a.num * b.den > b.num * a.den

RECURSIVE Occurrences(_)
\* The (label, score) pairs in the order the two loops of lines 315-322
\* visit them: score = len(parsed) - rank + 1.
Occurrences(results) ==
  IF results = <<>> THEN <<>>
  ELSE LET parsed == Head(results).parsed_ranking
       IN [rank \in 1 .. Len(parsed) |->
             [label |-> parsed[rank], score |-> Len(parsed) - rank + 1]]
          \o Occurrences(Tail(results))

RECURSIVE KeysInOrder_Repeated(_, _)
\* Mutant: a label gets a new key each time it is met.
KeysInOrder_Repeated(occ, seen) ==
  IF occ = <<>> THEN <<>>
  ELSE <<Head(occ).label>> \o KeysInOrder_Repeated(Tail(occ), seen)

RECURSIVE KeysInOrder(_, _)
\* The keys of the dict rank_scores in insertion order.
KeysInOrder(occ, seen) ==
  IF occ = <<>> THEN <<>>
  ELSE IF Head(occ).label \in seen THEN KeysInOrder(Tail(occ), seen)
  ELSE <<Head(occ).label>> \o KeysInOrder(Tail(occ), seen \cup {Head(occ).label})

RECURSIVE SumScores(_, _)
SumScores(occ, label) ==
  IF occ = <<>> THEN 0
  ELSE (IF Head(occ).label = label THEN Head(occ).score ELSE 0)
       + SumScores(Tail(occ), label)

CountScores(occ, label) == Len(SelectSeq(occ, LAMBDA o : o.label = label))

\* Mutant: the mean is taken over all raters, not over the raters that
\* ranked the label.
AvgScores_OverRaters(results) ==
  LET occ == Occurrences(results)
      keys == KeysInOrder(occ, {})
  IN [k \in 1 .. Len(keys) |->
        [label |-> keys[k],
         score |-> Mean(SumScores(occ, keys[k]), Len(results))]]

\* avg_scores.items(): one (label, mean) pair per key, in insertion order.
AvgScores(results) ==
  LET occ == Occurrences(results)
      keys == KeysInOrder(occ, {})
  IN [k \in 1 .. Len(keys) |->
        [label |-> keys[k],
         score |-> Mean(SumScores(occ, keys[k]), CountScores(occ, keys[k]))]]

RECURSIVE InsertDesc_Unstable(_, _)
\* Mutant: x goes in front of the elements whose score equals its own.
InsertDesc_Unstable(x, sorted) ==
  IF sorted = <<>> THEN <<x>>
  ELSE IF ~ScoreGreater(Head(sorted).score, x.score) THEN <<x>> \o sorted
  ELSE <<Head(sorted)>> \o InsertDesc_Unstable(x, Tail(sorted))

RECURSIVE InsertDesc(_, _)
\* x goes behind every element whose score is not smaller than its own.
InsertDesc(x, sorted) ==
  IF sorted = <<>> THEN <<x>>
  ELSE IF ScoreGreater(x.score, Head(sorted).score) THEN <<x>> \o sorted
  ELSE <<Head(sorted)>> \o InsertDesc(x, Tail(sorted))

RECURSIVE SortedDesc(_)
\* sorted(items, key=score, reverse=True): stable, equal scores keep their order.
SortedDesc(items) ==
  IF items = <<>> THEN <<>>
  ELSE InsertDesc(items[Len(items)], SortedDesc(SubSeq(items, 1, Len(items) - 1)))

calculate_aggregate_rankings(results) == SortedDesc(AvgScores(results))

(***************************************************************************)
(* The environment: what a member process may print.                       *)
(***************************************************************************)
\* Stage 1: nothing at all (content.strip() == ''), or some answer.
Stage1Contents == {<<>>, <<ProseTok>>}

Ranked(kind, n) == [k \in 1 .. n |-> Item(kind, Chr65(k - 1))]
Reversed(seq) == [k \in 1 .. Len(seq) |-> seq[Len(seq) + 1 - k]]

\* Stage 2, n responses to rank: no marker; a ranking best-to-worst or
\* worst-to-best in either kind of label; a ranking led by a letter that
\* no response of the session carries.
RaterTexts(n) ==
  {<<ProseTok>>}
    \cup {<<ProseTok, MarkerTok>> \o Ranked("Response", n),
          <<ProseTok, MarkerTok>> \o Reversed(Ranked("Response", n)),
          <<ProseTok, MarkerTok>> \o Ranked("Proposal", n),
          <<MarkerTok, Item("Response", Letters[26])>> \o Ranked("Response", 1)}

MemberLists == {m \in [1 .. MemberCount -> Names] : m[1] = "m1"}
MergeModes == {None, "auto", "manual", "dry-run"}
Unread == "unread"
NoMember == -1
MergeMembers == NoMember .. (MemberCount + 1)

Idle == [st |-> "idle", content |-> <<>>]
Running == [st |-> "running", content |-> <<>>]
Failed == [st |-> "failed", content |-> <<>>]
Ok(content) == [st |-> "ok", content |-> content]

NoMerge == [status |-> None, member |-> None, members_with_diffs |-> 0]

\* What _handle_merge did on the way: the line read at the prompt, what
\* commit_changes did (True, False "nothing", or raise "error") and what
\* apply_changes_to_main did (return "ok" or raise "error").
NotAsked == <<"not asked">>
NotCalled == "not called"
Log(answer, commit, apply) == [answer |-> answer, commit |-> commit, apply |-> apply]
NoLog == Log(NotAsked, NotCalled, NotCalled)

(***************************************************************************)
(* The repository as WorktreeManager finds and leaves it.  A workspace id  *)
(* stands for the member_id of council.py line 74 (one per member index);  *)
(* its directory is worktrees_dir / member_id and its branch               *)
(* council/<safe_id>.  A commit of the main line is numbered 0 .. MaxHead. *)
(*   head      the commit HEAD of the main repository points to            *)
(*   dirs      the ids whose directory exists under worktrees_dir          *)
(*   dirty     the ids whose working copy holds uncommitted changes        *)
(*   records   the ids git has a worktree registration for                 *)
(*   branches  per id: whether council/<id> exists, the main-line commit   *)
(*             it was created from, and the commits made on top of it      *)
(*   last      the last WorktreeManager call, what it found and how it     *)
(*             ended                                                       *)
(***************************************************************************)
MaxHead == 1
MaxCommits == 1

WorkspaceIds == Indices

NoBranch == [exists |-> FALSE, base |-> 0, commits |-> 0]
Branch(base, made) == [exists |-> TRUE, base |-> base, commits |-> made]

\* What a call found: the repository without the record of the last call.
Found(r) ==
  [head |-> r.head, dirs |-> r.dirs, dirty |-> r.dirty, records |-> r.records,
   branches |-> r.branches]

Nothing ==
  [head |-> 0, dirs |-> {}, dirty |-> {}, records |-> {},
   branches |-> [id \in WorkspaceIds |-> NoBranch]]

NoCall ==
  [op |-> "none", member_id |-> NoMember, ok |-> TRUE, found |-> Nothing,
   after |-> "none"]
Called(op, id, ok, r) ==
  [op |-> op, member_id |-> id, ok |-> ok, found |-> Found(r), after |-> r.last.op]

\* A repository with one commit and no workspace, directory or branch.
CleanRepo ==
  [head |-> 0, dirs |-> {}, dirty |-> {}, records |-> {},
   branches |-> [id \in WorkspaceIds |-> NoBranch], last |-> NoCall]

\* "git worktree remove <path> --force" returns 0 for a registered working
\* copy that is on disk, uncommitted changes or not; for a directory git
\* has no registration of it fails ("is not a working tree").
GitWorktreeRemoveOk(r, id) == id \in r.dirs /\ id \in r.records

\* Lines 107-121 of worktree_manager.py: nothing when the directory does
\* not exist; else the git removal, which takes the directory and the
\* registration, and rmtree on the directory when git failed.  No line
\* deletes the branch.
remove_worktree(r, id) ==
  IF id \notin r.dirs THEN r
  ELSE IF GitWorktreeRemoveOk(r, id)
       THEN [r EXCEPT !.dirs = @ \ {id}, !.dirty = @ \ {id}, !.records = @ \ {id}]
       ELSE [r EXCEPT !.dirs = @ \ {id}, !.dirty = @ \ {id}]

\* "git worktree add -b <branch> <path> HEAD" returns 0 when the branch does
\* not exist yet and the path is neither on disk nor registered.
GitWorktreeAddNewBranchOk(r, id) ==
  /\ ~r.branches[id].exists
  /\ id \notin r.dirs
  /\ id \notin r.records

\* "git worktree add <path> <branch>" returns 0 when the branch exists, is
\* checked out in no registered worktree, and the path is neither on disk
\* nor registered ("missing but already registered worktree" otherwise).
GitWorktreeAddOk(r, id) ==
  /\ r.branches[id].exists
  /\ id \notin r.dirs
  /\ id \notin r.records

\* Lines 70-97: an existing directory is removed first; the branch is
\* created from HEAD, or, when that fails, the existing branch is checked
\* out as it is; RuntimeError when both fail.
create_worktree(r, id) ==
  LET r1 == IF id \in r.dirs THEN remove_worktree(r, id) ELSE r
  IN IF GitWorktreeAddNewBranchOk(r1, id)
     THEN [r1 EXCEPT !.dirs = @ \cup {id}, !.records = @ \cup {id},
                     !.branches[id] = Branch(r1.head, 0),
                     !.last = Called("create_worktree", id, TRUE, r)]
     ELSE IF GitWorktreeAddOk(r1, id)
     THEN [r1 EXCEPT !.dirs = @ \cup {id}, !.records = @ \cup {id},
                     !.last = Called("create_worktree", id, TRUE, r)]
     ELSE [r1 EXCEPT !.last = Called("create_worktree", id, FALSE, r)]

\* Lines 625-639: remove_worktree for every registration "git worktree
\* list" shows under worktrees_dir.
RemoveListed(r) ==
  LET removed == {id \in r.records : GitWorktreeRemoveOk(r, id)}
      rmtree == {id \in r.records \cap r.dirs : ~GitWorktreeRemoveOk(r, id)}
  IN [r EXCEPT !.dirs = (@ \ removed) \ rmtree, !.dirty = (@ \ removed) \ rmtree,
               !.records = @ \ removed]

\* Lines 641-645: rmtree on every directory left under worktrees_dir.
RemoveRemainingDirs(r) == [r EXCEPT !.dirs = {}, !.dirty = {}]

\* "git worktree prune": the registrations whose directory is gone go.
GitWorktreePrune(r) == [r EXCEPT !.records = @ \cap r.dirs]

\* Lines 650-658: "git branch -D" on every council/* branch; git refuses
\* it for a branch that a registered worktree has checked out.
DeleteCouncilBranches(r) ==
  [r EXCEPT !.branches =
     [id \in WorkspaceIds |-> IF id \in r.records THEN r.branches[id] ELSE NoBranch]]

\* Mutant: the stale registrations are not pruned before the branches are
\* deleted.
cleanup_all_worktrees_NoPrune(r) ==
  DeleteCouncilBranches(RemoveRemainingDirs(RemoveListed(r)))

\* Mutant: the council branches are deleted first, while the worktrees that
\* have them checked out are still registered.
cleanup_all_worktrees_BranchesFirst(r) ==
  GitWorktreePrune(RemoveRemainingDirs(RemoveListed(DeleteCouncilBranches(r))))

\* Lines 622-658.
cleanup_all_worktrees(r) ==
  DeleteCouncilBranches(GitWorktreePrune(RemoveRemainingDirs(RemoveListed(r))))

(***************************************************************************)
(* Config and the provider dispatch.  A model string is the sequence of    *)
(* its '/'-separated segments.                                             *)
(***************************************************************************)
MaxSegments == 3

Segments == {"opencode", "OpenCode", "openrouter", "anthropic", "claude-3"}

ModelStrings == UNION {[1 .. n -> Segments] : n \in 1 .. MaxSegments}

\* str.lower() on the segments in use.
LowerSegment(s) == IF s = "OpenCode" THEN "opencode" ELSE s

\* config.py line 36.
known_providers == {"openrouter", "opencode"}

ValueError == [raised |-> "ValueError"]

\* config.py lines 29-43: split at the first '/', the first part
\* lower-cased; a known provider is cut off, any other string goes to
\* openrouter whole.
parse_provider_model(full_model) ==
  IF Len(full_model) < 2 THEN ValueError
  ELSE IF LowerSegment(Head(full_model)) \in known_providers
       THEN [provider |-> LowerSegment(Head(full_model)), model |-> Tail(full_model)]
       ELSE [provider |-> "openrouter", model |-> full_model]

NoCouncilMember == [provider |-> None, model |-> <<>>, full_name |-> <<>>]
NotQueried == "not queried"

\* No ranking prompt has been built yet.
NoPrompt == [template |-> None, text |-> <<>>]

\* No apply_changes_* call has been made.
NoApply == [op |-> "none"]

\* A session is started either through CouncilAPI.run_council_async (cli.py,
\* the only caller that knows no_commit) or by calling run_full_council
\* directly, as council_skill.run_council does.
Init ==
  /\ members \in MemberLists
  /\ pc \in {"api_call", "start"}
  /\ no_commit \in (IF pc = "api_call" THEN BOOLEAN ELSE {FALSE})
  /\ use_worktrees \in BOOLEAN
  /\ merge_mode = Unread
  /\ merge_member = NoMember
  /\ confirm_merge = FALSE
  /\ worktrees = {}
  /\ worktree_paths = {}
  /\ tasks = [i \in Indices |-> Idle]
  /\ responses = <<>>
  /\ stage1_results = <<>>
  /\ label_to_model = <<>>
  /\ stage2_results = <<>>
  /\ aggregate_rankings = <<>>
  /\ chairman = Idle
  /\ stage3_result = None
  /\ merge_result = NoMerge
  /\ merge_log = NoLog
  /\ target_member = NoTarget
  /\ commits = {}
  /\ main_line = <<>>
  /\ returned = "none"
  /\ completed = <<>>
  /\ processes = {}
  /\ ranking_prompt = NoPrompt
  /\ repo = CleanRepo
  /\ model_str = <<>>
  /\ openrouter_api_key = FALSE
  /\ council_member = NoCouncilMember
  /\ provider_call = NotQueried
  /\ call = NoApply

(***************************************************************************)
(* query_members_parallel: the fan-out and the fan-in.                     *)
(***************************************************************************)
RECURSIVE Responses_CancelSiblings(_, _)
\* Mutant: the first failed invocation cancels the ones listed after it.
Responses_CancelSiblings(t, i) ==
  IF i >= MemberCount \/ t[i].st # "ok" THEN <<>>
  ELSE <<[member_index |-> i, full_name |-> members[i + 1],
          content |-> t[i].content]>>
       \o Responses_CancelSiblings(t, i + 1)

RECURSIVE RenumberedFrom(_, _, _)
RenumberedFrom(t, i, n) ==
  IF i >= MemberCount THEN <<>>
  ELSE IF t[i].st = "ok"
       THEN <<[member_index |-> n, full_name |-> members[i + 1],
               content |-> t[i].content]>>
            \o RenumberedFrom(t, i + 1, n + 1)
       ELSE RenumberedFrom(t, i + 1, n)

\* Mutant: member_index counts the responses, not the configured members.
Responses_Renumbered(t, i) == RenumberedFrom(t, i, 0)

\* Mutant: the results are listed as the invocations complete
\* (asyncio.as_completed in place of asyncio.gather).
Responses_AsCompleted(t, i) ==
  LET done == SelectSeq(completed, LAMBDA j : j >= i /\ t[j].st = "ok")
  IN [k \in 1 .. Len(done) |->
        [member_index |-> done[k], full_name |-> members[done[k] + 1],
         content |-> t[done[k]].content]]

RECURSIVE Responses(_, _)
\* Lines 198-208 of unified_client.py: the members in configuration order,
\* those whose response is None left out, each with its member_index.
Responses(t, i) ==
  IF i >= MemberCount THEN <<>>
  ELSE (IF t[i].st = "ok"
        THEN <<[member_index |-> i, full_name |-> members[i + 1],
                content |-> t[i].content]>>
        ELSE <<>>)
       \o Responses(t, i + 1)

\* council.py lines 35-38: the client is built with working_dir = repo_root,
\* the main repository itself.
RepoRoot == [dir |-> "repo_root", member |-> NoMember]

\* worktrees_dir / member_id, the working copy made for member i.
WorktreePath(i) == [dir |-> "worktree", member |-> i]

\* The working directory of member i's Stage-1 process.  council.py lines
\* 69-78 and 90: working_dirs holds the members whose create_worktree
\* returned; unified_client.py line 186: working_dirs.get(i), None for the
\* others; opencode_client.py line 67: cwd = working_dir or self.working_dir.
Cwd(i) ==
  IF use_worktrees /\ i \in worktree_paths THEN WorktreePath(i) ELSE RepoRoot

\* opencode_client.py lines 121-124 and 138-140: asyncio.wait_for cancels
\* process.communicate() when the timeout expires and query_model returns
\* None; nothing kills or awaits the process, which goes on running in dir.
TimedOut(procs, dir) == procs \cup {dir}

\* Lines 126-129 and 141-146: a non-zero exit is read after communicate()
\* returned, and a launch failure started no process.
Exited(procs, dir) == procs

\* Mutant: the gather returns as soon as one invocation has resolved.
AllResolved_Any == \E i \in Indices : tasks[i].st \in {"ok", "failed"}

AllResolved == \A i \in Indices : tasks[i].st \in {"ok", "failed"}

(***************************************************************************)
(* run_full_council, Stage 1.                                              *)
(***************************************************************************)
\* api.py lines 231-239 and 258-263: run_council_async calls
\* run_full_council with the keyword no_commit, whatever its value; the
\* signature of council.py lines 338-347 has no such parameter, so the call
\* raises TypeError before the body runs, and the handler re-raises it.
RunCouncilAsync ==
  /\ pc = "api_call"
  /\ pc' = "raised"
  /\ returned' = "raised"
  /\ UNCHANGED <<repo, call, ConfigVars, completed, processes, ranking_prompt, members, no_commit, use_worktrees, merge_mode, merge_member,
                 confirm_merge, worktrees, worktree_paths, tasks, responses,
                 stage1_results, label_to_model, stage2_results,
                 aggregate_rankings, chairman, stage3_result, merge_result,
                 merge_log, target_member, commits, main_line>>

\* Lines 364-370: prepare_fresh_worktrees() removes every workspace left on
\* disk; a failure is logged and swallowed.
PrepareFreshWorktrees ==
  /\ pc = "start"
  /\ worktrees' = IF use_worktrees THEN {} ELSE worktrees
  /\ pc' = "stage1_create"
  /\ UNCHANGED <<repo, call, ConfigVars, completed, processes, ranking_prompt, members, no_commit, use_worktrees, merge_mode, merge_member, confirm_merge,
                 worktree_paths, tasks, stage1_results, label_to_model,
                 stage2_results, aggregate_rankings, stage3_result, chairman, merge_result, merge_log,
                 target_member, commits, main_line, returned,
                 responses>>

\* Lines 67-80: one create_worktree per member, by the orchestrating flow;
\* a member whose creation raises gets no entry in worktree_paths.
Stage1CreateWorktrees ==
  /\ pc = "stage1_create"
  /\ \E created \in SUBSET Indices :
       /\ use_worktrees \/ created = {}
       /\ worktrees' = worktrees \cup created
       /\ worktree_paths' = created
  /\ pc' = "stage1_fanout"
  /\ UNCHANGED <<repo, call, ConfigVars, completed, processes, ranking_prompt, members, no_commit, use_worktrees, merge_mode, merge_member, confirm_merge,
                 tasks, stage1_results, label_to_model, stage2_results,
                 aggregate_rankings, stage3_result, chairman, merge_result, merge_log, target_member,
                 commits, main_line, returned,
                 responses>>

\* Lines 184-196 of unified_client.py: one task per member, all started
\* before the gather.
Stage1FanOut ==
  /\ pc = "stage1_fanout"
  /\ tasks' = [i \in Indices |-> Running]
  /\ pc' = "stage1_wait"
  /\ UNCHANGED <<repo, call, ConfigVars, completed, processes, ranking_prompt, members, no_commit, use_worktrees, merge_mode, merge_member, confirm_merge,
                 worktrees, worktree_paths, stage1_results, label_to_model,
                 stage2_results, aggregate_rankings, stage3_result, chairman, merge_result, merge_log,
                 target_member, commits, main_line, returned,
                 responses>>

\* query_member/query_model for member i: None on a timeout, a launch
\* failure or a non-zero exit, else {'content': stdout.strip()}.
Stage1TaskResolves(i) ==
  /\ pc = "stage1_wait"
  /\ tasks[i].st = "running"
  /\ \/ /\ tasks' = [tasks EXCEPT ![i] = Failed]
        /\ processes' \in {TimedOut(processes, Cwd(i)), Exited(processes, Cwd(i))}
     \/ /\ \E c \in Stage1Contents : tasks' = [tasks EXCEPT ![i] = Ok(c)]
        /\ processes' = Exited(processes, Cwd(i))
  /\ completed' = Append(completed, i)
  /\ UNCHANGED <<repo, call, ConfigVars, ranking_prompt, members, no_commit, use_worktrees, merge_mode, merge_member, confirm_merge,
                 pc, worktrees, worktree_paths, stage1_results, label_to_model,
                 stage2_results, aggregate_rankings, stage3_result, chairman, merge_result, merge_log,
                 target_member, commits, main_line, returned,
                 responses>>

\* A line of a diff.
DiffTok == <<"diff", "", "">>

\* Lines 93-126: one result per response.  with_diff are the members whose
\* get_worktree_diff returned a non-empty text (an empty text and a raised
\* error both leave the entry without 'diff').
Stage1Entries(resps, with_diff) ==
  [k \in 1 .. Len(resps) |->
     [member_index |-> resps[k].member_index,
      model |-> resps[k].full_name,
      response |-> resps[k].content,
      member_id |-> resps[k].member_index \in worktree_paths,
      diff |-> resps[k].member_index \in with_diff,
      diff_text |-> IF resps[k].member_index \in with_diff THEN <<DiffTok>> ELSE <<>>]]

\* Line 111-116: self._extract_and_write_code is called for a member with a
\* workspace and a non-empty response; CouncilOrchestrator defines no such
\* method, so the call raises AttributeError.
ExtractRaises(resps) ==
  \E k \in 1 .. Len(resps) :
    /\ resps[k].member_index \in worktree_paths
    /\ resps[k].content # <<>>

\* Lines 196-210 of unified_client.py: the gather returns once every task
\* has resolved, and the responses that are not None are listed.
Stage1FanIn ==
  /\ pc = "stage1_wait"
  /\ AllResolved
  /\ responses' = Responses(tasks, 0)
  /\ pc' = "stage1_format"
  /\ UNCHANGED <<repo, call, ConfigVars, completed, processes, ranking_prompt, members, no_commit, use_worktrees, merge_mode, merge_member, confirm_merge,
                 worktrees, worktree_paths, tasks, stage1_results, label_to_model,
                 stage2_results, aggregate_rankings, stage3_result, chairman, merge_result, merge_log,
                 target_member, commits, main_line, returned>>

\* Lines 93-128: the formatting loop of stage1_collect_responses.
Stage1Format ==
  /\ pc = "stage1_format"
  /\ LET have_wt == {responses[k].member_index : k \in 1 .. Len(responses)}
                      \cap worktree_paths
     IN IF ExtractRaises(responses)
        THEN /\ pc' = "raised"
             /\ returned' = "raised"
             /\ UNCHANGED stage1_results
        ELSE /\ \E with_diff \in SUBSET have_wt :
                  stage1_results' = Stage1Entries(responses, with_diff)
             /\ pc' = "stage1_done"
             /\ UNCHANGED returned
  /\ tasks' = [i \in Indices |-> Idle]
  /\ responses' = <<>>
  /\ completed' = <<>>
  /\ UNCHANGED <<repo, call, ConfigVars, processes, ranking_prompt, members, no_commit, use_worktrees, merge_mode, merge_member, confirm_merge,
                 worktrees, worktree_paths, label_to_model, stage2_results,
                 aggregate_rankings, stage3_result, chairman, merge_result, merge_log, target_member,
                 commits, main_line>>

\* Lines 383-389: the error result when nobody responded.
ReturnNoResponses ==
  /\ pc = "stage1_done"
  /\ stage1_results = <<>>
  /\ pc' = "done"
  /\ returned' = "error"
  /\ UNCHANGED <<repo, call, ConfigVars, completed, processes, ranking_prompt, members, no_commit, use_worktrees, merge_mode, merge_member, confirm_merge,
                 worktrees, worktree_paths, tasks, stage1_results, label_to_model,
                 stage2_results, aggregate_rankings, stage3_result, chairman, merge_result, merge_log,
                 target_member, commits, main_line,
                 responses>>

(***************************************************************************)
(* Stage 2, the aggregate and Stage 3.                                     *)
(***************************************************************************)
\* Mutant: the letter is taken from the member's index, not from the
\* position in the result list.
LabelToModel_ByMemberIndex(results) ==
  [l \in {ResponseLabel(results[k].member_index) : k \in 1 .. Len(results)} |->
     results[CHOOSE k \in 1 .. Len(results) :
               ResponseLabel(results[k].member_index) = l].model]

\* Lines 147-154: labels[i] = chr(65 + i), and the dict
\* {f"Response {label}": result['model']} over zip(labels, stage1_results).
LabelToModel(results) ==
  [l \in {ResponseLabel(k - 1) : k \in 1 .. Len(results)} |->
     results[CHOOSE k \in 1 .. Len(results) : ResponseLabel(k - 1) = l].model]

\* label_to_model.get(label)
Get(mapping, label) == IF label \in DOMAIN mapping THEN mapping[label] ELSE None

\* Lines 157-171: the prompt asks for "Proposal X" labels when diffs are
\* reviewed (use_diffs and some entry has a diff), else for "Response X".
PromptKind(results, use_diffs) ==
  IF use_diffs /\ \E k \in 1 .. Len(results) : results[k].diff
  THEN "Proposal" ELSE "Response"

\* The line "Response X:" or "Proposal X:" that opens a block (lines 160, 168).
Header(kind, letter) == <<"header", kind, letter>>

\* Mutant: a block names the model that wrote it.
Block_Named(kind, k, r, code) ==
  <<Header(kind, Chr65(k - 1)), <<"model", r.model, "">>>>
    \o (IF code /\ r.diff THEN r.diff_text ELSE r.response)

\* Lines 160 and 168: the label line and the content, which is
\* result.get('diff', result['response']) in the code review and
\* result['response'] otherwise.
Block(kind, k, r, code) ==
  <<Header(kind, Chr65(k - 1))>>
    \o (IF code /\ r.diff THEN r.diff_text ELSE r.response)

RECURSIVE Blocks(_, _, _, _)
\* Lines 159-162 and 167-170: the blocks of all entries, joined.
Blocks(results, kind, code, k) ==
  IF k > Len(results) THEN <<>>
  ELSE Block(kind, k, results[k], code) \o Blocks(results, kind, code, k + 1)

\* Line 164, str.replace("Response", "Proposal") on the joined text: every
\* occurrence of the word is rewritten, in the label lines and in the
\* members' texts alike.
Replace(text) ==
  [k \in 1 .. Len(text) |->
     IF text[k][2] = "Response" THEN <<text[k][1], "Proposal", text[k][3]>>
     ELSE text[k]]

\* Lines 157-178: the template and the text put into it.
Stage2Prompt(results, use_diffs) ==
  IF PromptKind(results, use_diffs) = "Proposal"
  THEN [template |-> "CODE_STAGE2_REVIEW_PROMPT",
        text |-> Replace(Blocks(results, "Proposal", TRUE, 1))]
  ELSE [template |-> "STAGE2_RANKING_PROMPT",
        text |-> Blocks(results, "Response", FALSE, 1)]

\* Mutant: the session goes on to Stage 2 with no response at all.
Stage2FanOut_Unguarded ==
  /\ pc = "stage1_done"
  /\ label_to_model' = LabelToModel(stage1_results)
  /\ ranking_prompt' = Stage2Prompt(stage1_results, use_worktrees)
  /\ tasks' = [i \in Indices |-> Running]
  /\ pc' = "stage2_wait"
  /\ UNCHANGED <<repo, call, ConfigVars, completed, processes, members, no_commit, use_worktrees, merge_mode, merge_member, confirm_merge,
                 worktrees, worktree_paths, stage1_results, stage2_results,
                 aggregate_rankings, stage3_result, chairman, merge_result, merge_log, target_member,
                 commits, main_line, returned, responses>>

\* Lines 147-187: the labels and the mapping are computed, the one prompt is
\* built, and every member is asked to rank.
Stage2FanOut ==
  /\ pc = "stage1_done"
  /\ stage1_results # <<>>
  /\ label_to_model' = LabelToModel(stage1_results)
  /\ ranking_prompt' = Stage2Prompt(stage1_results, use_worktrees)
  /\ tasks' = [i \in Indices |-> Running]
  /\ pc' = "stage2_wait"
  /\ UNCHANGED <<repo, call, ConfigVars, completed, processes, members, no_commit, use_worktrees, merge_mode, merge_member, confirm_merge,
                 worktrees, worktree_paths, stage1_results, stage2_results,
                 aggregate_rankings, stage3_result, chairman, merge_result, merge_log, target_member,
                 commits, main_line, returned,
                 responses>>

Stage2TaskResolves(i) ==
  /\ pc = "stage2_wait"
  /\ tasks[i].st = "running"
  /\ \/ /\ tasks' = [tasks EXCEPT ![i] = Failed]
        /\ processes' \in {TimedOut(processes, RepoRoot), Exited(processes, RepoRoot)}
     \/ /\ \E text \in RaterTexts(Len(stage1_results)) :
             tasks' = [tasks EXCEPT ![i] = Ok(text)]
        /\ processes' = Exited(processes, RepoRoot)
  /\ completed' = Append(completed, i)
  /\ UNCHANGED <<repo, call, ConfigVars, ranking_prompt, members, no_commit, use_worktrees, merge_mode, merge_member, confirm_merge,
                 pc, worktrees, worktree_paths, stage1_results, label_to_model,
                 stage2_results, aggregate_rankings, stage3_result, chairman, merge_result, merge_log,
                 target_member, commits, main_line, returned,
                 responses>>

\* Lines 189-199: one result per response, its text parsed.
Stage2Entries(resps) ==
  [k \in 1 .. Len(resps) |->
     [model |-> resps[k].full_name,
      ranking |-> resps[k].content,
      parsed_ranking |-> _parse_ranking_from_text(resps[k].content)]]

Stage2FanIn ==
  /\ pc = "stage2_wait"
  /\ AllResolved
  /\ responses' = Responses(tasks, 0)
  /\ pc' = "stage2_format"
  /\ UNCHANGED <<repo, call, ConfigVars, completed, processes, ranking_prompt, members, no_commit, use_worktrees, merge_mode, merge_member, confirm_merge,
                 worktrees, worktree_paths, tasks, stage1_results, label_to_model,
                 stage2_results, aggregate_rankings, stage3_result, chairman, merge_result, merge_log,
                 target_member, commits, main_line, returned>>

Stage2Format ==
  /\ pc = "stage2_format"
  /\ stage2_results' = Stage2Entries(responses)
  /\ tasks' = [i \in Indices |-> Idle]
  /\ responses' = <<>>
  /\ completed' = <<>>
  /\ pc' = "aggregate"
  /\ UNCHANGED <<repo, call, ConfigVars, processes, ranking_prompt, members, no_commit, use_worktrees, merge_mode, merge_member, confirm_merge,
                 worktrees, worktree_paths, stage1_results, label_to_model,
                 aggregate_rankings, stage3_result, chairman, merge_result, merge_log, target_member,
                 commits, main_line, returned>>

\* Lines 402-417: the aggregate, then the chairman is invoked.
CalculateAggregate ==
  /\ pc = "aggregate"
  /\ aggregate_rankings' = calculate_aggregate_rankings(stage2_results)
  /\ pc' = "stage3"
  /\ UNCHANGED <<repo, call, ConfigVars, completed, processes, ranking_prompt, members, no_commit, use_worktrees, merge_mode, merge_member, confirm_merge,
                 worktrees, worktree_paths, tasks, stage1_results, label_to_model,
                 stage2_results, stage3_result, chairman, merge_result, merge_log, target_member,
                 commits, main_line, returned,
                 responses>>

\* Line 254: "Error: Unable to generate final synthesis."
FallbackMessage == <<<<"fallback", "", "">>>>

\* Mutant: a failed chairman leaves an empty response.
Stage3Response_Empty(out) ==
  IF out.st = "ok" THEN out.content ELSE <<>>

\* Lines 249-263: the fallback message when query_member returned None,
\* else the content the chairman printed.
Stage3Response(out) ==
  IF out.st = "ok" THEN out.content ELSE FallbackMessage

\* Lines 408-418 and 221-263: the one chairman invocation and its result.
Stage3Resolves ==
  /\ pc = "stage3"
  /\ \E out \in {Failed, Ok(<<ProseTok>>)} :
       /\ chairman' = out
       /\ stage3_result' = Stage3Response(out)
       /\ processes' \in (IF out = Failed
                           THEN {TimedOut(processes, RepoRoot), Exited(processes, RepoRoot)}
                           ELSE {Exited(processes, RepoRoot)})
  /\ pc' = "merge"
  /\ UNCHANGED <<repo, call, ConfigVars, completed, ranking_prompt, members, no_commit, use_worktrees, merge_mode, merge_member, confirm_merge,
                 worktrees, worktree_paths, tasks, stage1_results, label_to_model,
                 stage2_results, aggregate_rankings, merge_result, merge_log, target_member,
                 commits, main_line, returned,
                 responses>>

(***************************************************************************)
(* _handle_merge.                                                          *)
(***************************************************************************)
\* Mutant: every entry with a workspace counts, changed or not.
MembersWithDiffs_AnyWorkspace(results) ==
  SelectSeq(results, LAMBDA r : r.member_id)

\* Lines 475-478.
MembersWithDiffs(results) == SelectSeq(results, LAMBDA r : r.diff /\ r.member_id)

\* Mutant: the mode is looked at although nothing was changed.
NoChanges_Skipped(with_diffs) == FALSE

\* Lines 480-482: "if not members_with_diffs", before the mode is looked at.
NoChanges(with_diffs) == with_diffs = <<>>

\* Line 505.
MatchingIndex(with_diffs, target_idx) ==
  SelectSeq(with_diffs, LAMBDA r : r.member_index = target_idx)

\* Lines 527 and 534.
MatchingModel(with_diffs, model) ==
  SelectSeq(with_diffs, LAMBDA r : r.model = model)

RECURSIVE NextRanked(_, _, _, _)
\* Lines 532-537: down the ranking from position k, the first label whose
\* model has an entry with a diff; <<>> when the loop runs out.
NextRanked(with_diffs, rankings, mapping, k) ==
  IF k > Len(rankings) THEN <<>>
  ELSE LET matching == MatchingModel(with_diffs, Get(mapping, rankings[k].label))
       IN IF matching # <<>> THEN matching
          ELSE NextRanked(with_diffs, rankings, mapping, k + 1)

RECURSIVE ScanVisits(_, _, _, _)
\* Lines 532-537: the positions of the ranking the loop looks at, from
\* position k on; the break ends it at the first label whose model has an
\* entry with a diff.
ScanVisits(with_diffs, rankings, mapping, k) ==
  IF k > Len(rankings) THEN <<>>
  ELSE IF MatchingModel(with_diffs, Get(mapping, rankings[k].label)) # <<>>
       THEN <<k>>
       ELSE <<k>> \o ScanVisits(with_diffs, rankings, mapping, k + 1)

\* Lines 514-537: the positions of the ranking the auto mode looks at.
AutoVisits(with_diffs, rankings, mapping) ==
  IF rankings = <<>> THEN <<>>
  ELSE IF Get(mapping, rankings[1].label) = None
          \/ MatchingModel(with_diffs, Get(mapping, rankings[1].label)) # <<>>
       THEN <<1>>
       ELSE <<1>> \o ScanVisits(with_diffs, rankings, mapping, 2)

\* Lines 514-542: <<>> stands for each of the three error returns.
AutoMatching(with_diffs, rankings, mapping) ==
  IF rankings = <<>> THEN <<>>
  ELSE LET top_model == Get(mapping, rankings[1].label)
       IN IF top_model = None THEN <<>>
          ELSE IF MatchingModel(with_diffs, top_model) # <<>>
               THEN MatchingModel(with_diffs, top_model)
               ELSE NextRanked(with_diffs, rankings, mapping, 2)

\* Mutant: the 1-based input is used as a 0-based index.
ManualMatching_ZeroBased(with_diffs, member) ==
  IF member = NoMember THEN <<>> ELSE MatchingIndex(with_diffs, member)

\* Lines 499-512.
ManualMatching(with_diffs, member) ==
  IF member = NoMember THEN <<>> ELSE MatchingIndex(with_diffs, member - 1)

\* What the user may type at the prompt of line 557, as the characters of
\* the line input() returns.
Answers == {<<"y">>, <<" ", "Y", " ">>, <<"n">>, <<"y", "e", "s">>, <<>>}

\* str.lower() on the characters in use.
Lower(c) == IF c = "Y" THEN "y" ELSE c

RECURSIVE LStrip(_)
LStrip(s) == IF s # <<>> /\ Head(s) = " " THEN LStrip(Tail(s)) ELSE s

\* str.strip(): the blanks at both ends go.
Strip(s) == Reversed(LStrip(Reversed(LStrip(s))))

\* input().strip().lower()
StripLower(s) == [k \in 1 .. Len(Strip(s)) |-> Lower(Strip(s)[k])]

\* Mutant: an empty line counts as consent.
Confirmed_DefaultYes(answer) == StripLower(answer) \in {<<"y">>, <<>>}

\* Lines 558-561: anything but 'y' cancels.
Confirmed(answer) == StripLower(answer) = <<"y">>

Outcome(status, member, n, target, committed, integrated, log) ==
  [status |-> status, member |-> member, members_with_diffs |-> n,
   target |-> target, committed |-> committed, integrated |-> integrated,
   log |-> log]

\* Mutant: a commit that found nothing to commit is followed by the merge.
CommitAndApply_IgnoreNothing(target, asked, commit_out, apply_out) ==
  LET idx == target.member_index
  IN IF commit_out = "error"
     THEN Outcome("error", None, 0, idx, FALSE, FALSE,
                  Log(asked, commit_out, NotCalled))
     ELSE IF apply_out # "ok"
     THEN Outcome("error", None, 0, idx, commit_out = "committed", FALSE,
                  Log(asked, commit_out, apply_out))
     ELSE Outcome("merged", target.model, 0, idx, commit_out = "committed", TRUE,
                  Log(asked, commit_out, apply_out))

\* Mutant: a failed integration is not noticed.
CommitAndApply_FailureIgnored(target, asked, commit_out, apply_out) ==
  LET idx == target.member_index
  IN IF commit_out # "committed"
     THEN Outcome("error", None, 0, idx, FALSE, FALSE,
                  Log(asked, commit_out, NotCalled))
     ELSE Outcome("merged", target.model, 0, idx, TRUE, apply_out = "ok",
                  Log(asked, commit_out, apply_out))

\* Mutant: the integration is made before the commit is looked at.
CommitAndApply_ApplyFirst(target, asked, commit_out, apply_out) ==
  LET idx == target.member_index
  IN IF apply_out # "ok"
     THEN Outcome("error", None, 0, idx, commit_out = "committed", FALSE,
                  Log(asked, commit_out, apply_out))
     ELSE IF commit_out # "committed"
     THEN Outcome("error", None, 0, idx, FALSE, TRUE,
                  Log(asked, commit_out, apply_out))
     ELSE Outcome("merged", target.model, 0, idx, TRUE, TRUE,
                  Log(asked, commit_out, apply_out))

\* Lines 563-590: commit_changes in the target's workspace, then
\* apply_changes_to_main; "Nothing to commit" and every exception give
\* status error.
CommitAndApply(target, asked, commit_out, apply_out) ==
  LET idx == target.member_index
  IN IF commit_out # "committed"
     THEN Outcome("error", None, 0, idx, FALSE, FALSE,
                  Log(asked, commit_out, NotCalled))
     ELSE IF apply_out # "ok"
     THEN Outcome("error", None, 0, idx, TRUE, FALSE,
                  Log(asked, commit_out, apply_out))
     ELSE Outcome("merged", target.model, 0, idx, TRUE, TRUE,
                  Log(asked, commit_out, apply_out))

\* The whole of _handle_merge.  answer is the line input() returns,
\* commit_out and apply_out what the two WorktreeManager calls do.
HandleMerge(results, rankings, mapping, mode, member, confirm, answer, commit_out, apply_out) ==
  LET with_diffs == MembersWithDiffs(results)
      matching == IF mode = "manual" THEN ManualMatching(with_diffs, member)
                  ELSE IF mode = "auto"
                       THEN AutoMatching(with_diffs, rankings, mapping)
                       ELSE <<>>
  IN IF NoChanges(with_diffs)
     THEN Outcome("no_changes", None, 0, NoTarget, FALSE, FALSE, NoLog)
     ELSE IF mode = "dry-run"
     THEN Outcome("dry_run", None, Len(with_diffs), NoTarget, FALSE, FALSE, NoLog)
     ELSE IF matching = <<>>
     THEN Outcome("error", None, 0, NoTarget, FALSE, FALSE, NoLog)
     ELSE LET target == matching[1]
              asked == IF confirm THEN answer ELSE NotAsked
          IN IF confirm /\ ~Confirmed(answer)
             THEN Outcome("cancelled", None, 0, target.member_index, FALSE, FALSE,
                          Log(asked, NotCalled, NotCalled))
             ELSE CommitAndApply(target, asked, commit_out, apply_out)

(***************************************************************************)
(* WorktreeManager.merge_top_ranked_changes and merge_member_changes, the  *)
(* two functions of worktree_manager.py that decide and perform a merge    *)
(* themselves.  answer, commit_out and apply_out are what input(),         *)
(* commit_changes and apply_changes_to_main answer.                        *)
(***************************************************************************)
\* Lines 363-365 and 494-496.
WithDiffAndWorkspace(results) ==
  SelectSeq(results, LAMBDA r : r.diff /\ r.member_id)

\* Lines 442-471 and 540-573: commit_changes, the "Nothing to commit" error
\* when it returned False, apply_changes_to_main, and status error for
\* whatever either of them raised.
CommitThenMerge(target, asked, commit_out, apply_out) ==
  IF commit_out = "error"
  THEN Outcome("error", None, 0, target.member_index, FALSE, FALSE,
               Log(asked, commit_out, NotCalled))
  ELSE IF commit_out = "nothing"
  THEN Outcome("error", None, 0, target.member_index, FALSE, FALSE,
               Log(asked, commit_out, NotCalled))
  ELSE IF apply_out = "ok"
  THEN Outcome("merged", target.model, 0, target.member_index, TRUE, TRUE,
               Log(asked, commit_out, apply_out))
  ELSE Outcome("error", None, 0, target.member_index, TRUE, FALSE,
               Log(asked, commit_out, apply_out))

\* Lines 432-438 and 530-536: the question, asked only with confirm.
ConfirmThenMerge(target, confirm, answer, commit_out, apply_out) ==
  IF confirm /\ StripLower(answer) # <<"y">>
  THEN Outcome("cancelled", None, 0, target.member_index, FALSE, FALSE,
               Log(answer, NotCalled, NotCalled))
  ELSE CommitThenMerge(target, IF confirm THEN answer ELSE NotAsked,
                       commit_out, apply_out)

\* Lines 404-413: the entries with a diff whose model is the model of the
\* first label, from position k of the ranking on, that has any.
RankedWithDiff(with_diffs, rankings, mapping, k) ==
  LET has == {j \in k .. Len(rankings) :
                \E e \in 1 .. Len(with_diffs) :
                  with_diffs[e].model = Get(mapping, rankings[j].label)}
  IN IF has = {} THEN <<>>
     ELSE LET first == CHOOSE j \in has : \A other \in has : j <= other
          IN SelectSeq(with_diffs,
                       LAMBDA r : r.model = Get(mapping, rankings[first].label))

\* Mutant: only the top-ranked label is looked at.
merge_top_ranked_changes_TopOnly(results, rankings, mapping, dry_run, confirm, answer, commit_out, apply_out) ==
  LET with_diffs == WithDiffAndWorkspace(results)
  IN IF with_diffs = <<>>
     THEN Outcome("no_changes", None, 0, NoTarget, FALSE, FALSE, NoLog)
     ELSE IF dry_run
     THEN Outcome("dry_run", None, Len(with_diffs), NoTarget, FALSE, FALSE, NoLog)
     ELSE IF rankings = <<>> \/ Get(mapping, rankings[1].label) = None
     THEN Outcome("error", None, 0, NoTarget, FALSE, FALSE, NoLog)
     ELSE LET matching ==
                SelectSeq(with_diffs,
                          LAMBDA r : r.model = Get(mapping, rankings[1].label))
          IN IF matching = <<>>
             THEN Outcome("error", None, 0, NoTarget, FALSE, FALSE, NoLog)
             ELSE ConfirmThenMerge(matching[1], confirm, answer, commit_out, apply_out)

\* Lines 342-471.  no_changes (367-369), dry_run (371-384), error without
\* rankings (387-392) or without a model for the top label (395-402), the
\* scan down the ranking (404-413), error when it finds nothing (415-421),
\* then the confirmation and the merge of matching[0].
merge_top_ranked_changes(results, rankings, mapping, dry_run, confirm, answer, commit_out, apply_out) ==
  LET with_diffs == WithDiffAndWorkspace(results)
  IN IF with_diffs = <<>>
     THEN Outcome("no_changes", None, 0, NoTarget, FALSE, FALSE, NoLog)
     ELSE IF dry_run
     THEN Outcome("dry_run", None, Len(with_diffs), NoTarget, FALSE, FALSE, NoLog)
     ELSE IF rankings = <<>> \/ Get(mapping, rankings[1].label) = None
     THEN Outcome("error", None, 0, NoTarget, FALSE, FALSE, NoLog)
     ELSE LET matching == RankedWithDiff(with_diffs, rankings, mapping, 1)
          IN IF matching = <<>>
             THEN Outcome("error", None, 0, NoTarget, FALSE, FALSE, NoLog)
             ELSE ConfirmThenMerge(matching[1], confirm, answer, commit_out, apply_out)

\* Lines 473-573, for a member_index that is an int, as the signature has
\* it: no_changes (498-500), dry_run (502-515), the entry with a diff whose
\* member_index is member_index - 1 (517-521), error without one (523-527),
\* then the confirmation and the merge.
merge_member_changes(results, member_index, dry_run, confirm, answer, commit_out, apply_out) ==
  LET with_diffs == WithDiffAndWorkspace(results)
  IN IF with_diffs = <<>>
     THEN Outcome("no_changes", None, 0, NoTarget, FALSE, FALSE, NoLog)
     ELSE IF dry_run
     THEN Outcome("dry_run", None, Len(with_diffs), NoTarget, FALSE, FALSE, NoLog)
     ELSE LET matching ==
                SelectSeq(with_diffs, LAMBDA r : r.member_index = member_index - 1)
          IN IF matching = <<>>
             THEN Outcome("error", None, 0, NoTarget, FALSE, FALSE, NoLog)
             ELSE ConfirmThenMerge(matching[1], confirm, answer, commit_out, apply_out)

\* Lines 420-430: the merge decision, taken only for a code session with a
\* merge mode.  The three merge arguments are first read here.
MergeDecision ==
  /\ pc = "merge"
  /\ \E mode \in MergeModes :
       /\ merge_mode' = mode
       /\ IF use_worktrees /\ mode # None
          THEN \E member \in MergeMembers, confirm \in BOOLEAN,
                  answer \in Answers,
                  commit_out \in {"committed", "nothing", "error"},
                  apply_out \in {"ok", "error"} :
                 LET out == HandleMerge(stage1_results, aggregate_rankings,
                                        label_to_model, mode, member, confirm,
                                        answer, commit_out, apply_out)
                 IN /\ merge_member' = member
                    /\ confirm_merge' = confirm
                    /\ merge_result' = [status |-> out.status, member |-> out.member,
                                        members_with_diffs |-> out.members_with_diffs]
                    /\ target_member' = out.target
                    /\ merge_log' = out.log
                    /\ commits' = IF out.committed THEN commits \cup {out.target}
                                  ELSE commits
                    /\ main_line' = IF out.integrated
                                    THEN Append(main_line, out.target)
                                    ELSE main_line
          ELSE UNCHANGED <<merge_member, confirm_merge, merge_result, merge_log,
                           target_member, commits, main_line>>
  /\ pc' = "cleanup"
  /\ UNCHANGED <<repo, call, ConfigVars, completed, processes, ranking_prompt, members, no_commit, use_worktrees, worktrees, worktree_paths, tasks,
                 stage1_results, label_to_model, stage2_results,
                 aggregate_rankings, stage3_result, chairman, returned,
                 responses>>

\* Lines 432-449: cleanup_all_worktrees(), then the result is returned.  The
\* removal is taken to succeed: remove_worktree falls back to rmtree, and
\* what is left is removed directory by directory (worktree_manager.py
\* lines 622-645).
Cleanup ==
  /\ pc = "cleanup"
  /\ worktrees' = IF use_worktrees THEN {} ELSE worktrees
  /\ pc' = "done"
  /\ returned' = "result"
  /\ UNCHANGED <<repo, call, ConfigVars, completed, processes, ranking_prompt, members, no_commit, use_worktrees, merge_mode, merge_member, confirm_merge,
                 worktree_paths, tasks, stage1_results, label_to_model,
                 stage2_results, aggregate_rankings, stage3_result, chairman, merge_result, merge_log,
                 target_member, commits, main_line,
                 responses>>

Next ==
  \/ RunCouncilAsync
  \/ PrepareFreshWorktrees
  \/ Stage1CreateWorktrees
  \/ Stage1FanOut
  \/ \E i \in Indices : Stage1TaskResolves(i)
  \/ Stage1FanIn
  \/ Stage1Format
  \/ ReturnNoResponses
  \/ Stage2FanOut
  \/ \E i \in Indices : Stage2TaskResolves(i)
  \/ Stage2FanIn
  \/ Stage2Format
  \/ CalculateAggregate
  \/ Stage3Resolves
  \/ MergeDecision
  \/ Cleanup

Spec == Init /\ [][Next]_vars

\* The session under the scheduling the code relies on: run_full_council is
\* one coroutine that goes from each await to the next, every member
\* invocation resolves (with its result, a failure or the timeout of
\* opencode_client.py line 123), and every git command returns.  So a step
\* that stays possible is taken.
SpecLive == Spec /\ WF_vars(Next)

(***************************************************************************)
(* calculate_aggregate_rankings on its own: the Stage-2 results are drawn  *)
(* from every list of at most MemberCount raters, each of whom ranks at    *)
(* most MaxRankLen labels out of RankedLetters, repetitions included, and  *)
(* the one step is the call of lines 402-406.                              *)
(***************************************************************************)
MaxRankLen == 3
RankedLetters == {"A", "B", "C"}

\* What a rater prints for the ranking q: prose, the marker, the numbered list.
RankingText(q) ==
  <<ProseTok, MarkerTok>> \o [k \in 1 .. Len(q) |-> Item("Response", q[k])]

RankingTexts ==
  {RankingText(q) : q \in UNION {[1 .. k -> RankedLetters] : k \in 0 .. MaxRankLen}}

InitAggregate ==
  /\ members = [k \in 1 .. MemberCount |-> "m1"]
  /\ no_commit = FALSE
  /\ use_worktrees = FALSE
  /\ merge_mode = Unread
  /\ merge_member = NoMember
  /\ confirm_merge = FALSE
  /\ pc = "aggregate"
  /\ worktrees = {}
  /\ worktree_paths = {}
  /\ tasks = [i \in Indices |-> Idle]
  /\ responses = <<>>
  /\ stage1_results = <<>>
  /\ label_to_model = <<>>
  /\ \E n \in 1 .. MemberCount : \E text \in [1 .. n -> RankingTexts] :
       stage2_results =
         Stage2Entries([k \in 1 .. n |->
                          [member_index |-> k - 1, full_name |-> "m1",
                           content |-> text[k]]])
  /\ aggregate_rankings = <<>>
  /\ chairman = Idle
  /\ stage3_result = None
  /\ merge_result = NoMerge
  /\ merge_log = NoLog
  /\ target_member = NoTarget
  /\ commits = {}
  /\ main_line = <<>>
  /\ returned = "none"
  /\ completed = <<>>
  /\ processes = {}
  /\ ranking_prompt = NoPrompt
  /\ repo = CleanRepo
  /\ model_str = <<>>
  /\ openrouter_api_key = FALSE
  /\ council_member = NoCouncilMember
  /\ provider_call = NotQueried
  /\ call = NoApply

SpecAggregate == InitAggregate /\ [][CalculateAggregate]_vars

(***************************************************************************)
(* _parse_ranking_from_text on its own: one rater's text is drawn from     *)
(* every sequence of at most MaxTextLen tokens, the marker any number of   *)
(* times among them, and the one step is the formatting of lines 189-199,  *)
(* which parses it.                                                        *)
(***************************************************************************)
MaxTextLen == 4

TextTokens ==
  {MarkerTok, ProseTok, Item("Response", "A"), Item("Proposal", "B"),
   Bare("Response", "A")}

ParserTexts == UNION {[1 .. n -> TextTokens] : n \in 0 .. MaxTextLen}

InitParse ==
  /\ members = [k \in 1 .. MemberCount |-> "m1"]
  /\ no_commit = FALSE
  /\ use_worktrees = FALSE
  /\ merge_mode = Unread
  /\ merge_member = NoMember
  /\ confirm_merge = FALSE
  /\ pc = "stage2_format"
  /\ worktrees = {}
  /\ worktree_paths = {}
  /\ \E text \in ParserTexts :
       tasks = [i \in Indices |-> IF i = 0 THEN Ok(text) ELSE Failed]
  /\ responses = Responses(tasks, 0)
  /\ stage1_results =
       <<[member_index |-> 0, model |-> "m1", response |-> <<ProseTok>>,
          member_id |-> FALSE, diff |-> FALSE, diff_text |-> <<>>]>>
  /\ label_to_model = LabelToModel(stage1_results)
  /\ stage2_results = <<>>
  /\ aggregate_rankings = <<>>
  /\ chairman = Idle
  /\ stage3_result = None
  /\ merge_result = NoMerge
  /\ merge_log = NoLog
  /\ target_member = NoTarget
  /\ commits = {}
  /\ main_line = <<>>
  /\ returned = "none"
  /\ completed = [k \in 1 .. MemberCount |-> k - 1]
  /\ processes = {}
  /\ ranking_prompt = Stage2Prompt(stage1_results, use_worktrees)
  /\ repo = CleanRepo
  /\ model_str = <<>>
  /\ openrouter_api_key = FALSE
  /\ council_member = NoCouncilMember
  /\ provider_call = NotQueried
  /\ call = NoApply

SpecParse == InitParse /\ [][Stage2Format]_vars

\* The variables of a session, which the WorktreeManager calls and Config
\* leave alone.
SessionVars ==
  <<members, no_commit, use_worktrees, merge_mode, merge_member, confirm_merge,
    worktrees, worktree_paths, tasks, responses, stage1_results, label_to_model,
    stage2_results, aggregate_rankings, chairman, stage3_result, merge_result,
    merge_log, target_member, commits, main_line, returned,
    completed, processes, ranking_prompt>>

\* The state of a session that has not started.
InitSession ==
  /\ members = [k \in 1 .. MemberCount |-> "m1"]
  /\ no_commit = FALSE
  /\ use_worktrees = FALSE
  /\ merge_mode = Unread
  /\ merge_member = NoMember
  /\ confirm_merge = FALSE
  /\ worktrees = {}
  /\ worktree_paths = {}
  /\ tasks = [i \in Indices |-> Idle]
  /\ responses = <<>>
  /\ stage1_results = <<>>
  /\ label_to_model = <<>>
  /\ stage2_results = <<>>
  /\ aggregate_rankings = <<>>
  /\ chairman = Idle
  /\ stage3_result = None
  /\ merge_result = NoMerge
  /\ merge_log = NoLog
  /\ target_member = NoTarget
  /\ commits = {}
  /\ main_line = <<>>
  /\ returned = "none"
  /\ completed = <<>>
  /\ processes = {}
  /\ ranking_prompt = NoPrompt

(***************************************************************************)
(* WorktreeManager on its own: the repository is drawn from every state    *)
(* earlier sessions, interrupted or not, can have left behind (a           *)
(* directory with or without its registration, a registration without its *)
(* directory, a branch with or without commits, created from HEAD or from  *)
(* an older commit), and the steps are the calls create_worktree,          *)
(* remove_worktree and cleanup_all_worktrees.                              *)
(***************************************************************************)
BranchStates ==
  {NoBranch} \cup {Branch(b, c) : b \in 0 .. MaxHead, c \in 0 .. MaxCommits}

\* git keeps a registration only for a checked-out branch that exists, and
\* a branch starts at a commit the main line has.
RepoStates ==
  {r \in [head : 0 .. MaxHead, dirs : SUBSET WorkspaceIds,
          dirty : SUBSET WorkspaceIds, records : SUBSET WorkspaceIds,
          branches : [WorkspaceIds -> BranchStates], last : {NoCall}] :
     /\ r.dirty \subseteq r.dirs \cap r.records
     /\ \A id \in r.records : r.branches[id].exists
     /\ \A id \in WorkspaceIds : r.branches[id].base <= r.head}

InitWorktree ==
  /\ InitSession
  /\ pc = "repo"
  /\ repo \in RepoStates
  /\ model_str = <<>>
  /\ openrouter_api_key = FALSE
  /\ council_member = NoCouncilMember
  /\ provider_call = NotQueried
  /\ call = NoApply

CreateWorktree(id) ==
  /\ pc = "repo"
  /\ repo' = create_worktree(repo, id)
  /\ UNCHANGED <<pc, call, ConfigVars, SessionVars>>

RemoveWorktree(id) ==
  /\ pc = "repo"
  /\ repo' = [remove_worktree(repo, id) EXCEPT
                !.last = Called("remove_worktree", id, TRUE, repo)]
  /\ UNCHANGED <<pc, call, ConfigVars, SessionVars>>

CleanupAllWorktrees ==
  /\ pc = "repo"
  /\ repo' = [cleanup_all_worktrees(repo) EXCEPT
                !.last = Called("cleanup_all_worktrees", NoMember, TRUE, repo)]
  /\ UNCHANGED <<pc, call, ConfigVars, SessionVars>>

NextWorktree ==
  \/ \E id \in WorkspaceIds : CreateWorktree(id)
  \/ \E id \in WorkspaceIds : RemoveWorktree(id)
  \/ CleanupAllWorktrees

SpecWorktree == InitWorktree /\ [][NextWorktree]_vars

(***************************************************************************)
(* Config and the dispatch on their own: one entry of COUNCIL_MODELS is    *)
(* drawn from every string of at most MaxSegments segments, with or        *)
(* without an OpenRouter key; Config.__init__ parses it, and query_member  *)
(* is called for the member it made.                                       *)
(***************************************************************************)
InitConfig ==
  /\ InitSession
  /\ pc = "config"
  /\ repo = CleanRepo
  /\ model_str \in ModelStrings
  /\ openrouter_api_key \in BOOLEAN
  /\ council_member = NoCouncilMember
  /\ provider_call = NotQueried
  /\ call = NoApply

\* config.py lines 73-86: the member dict of a model string; ValueError for
\* a string without '/', and for an openrouter member without the key.
ConfigInit ==
  /\ pc = "config"
  /\ LET parsed == parse_provider_model(model_str)
     IN IF parsed = ValueError
        THEN /\ pc' = "raised"
             /\ UNCHANGED council_member
        ELSE /\ council_member' = [provider |-> parsed.provider,
                                   model |-> parsed.model,
                                   full_name |-> model_str]
             /\ pc' = IF parsed.provider = "openrouter" /\ ~openrouter_api_key
                      THEN "raised" ELSE "configured"
  /\ UNCHANGED <<repo, call, model_str, openrouter_api_key, provider_call, SessionVars>>

\* unified_client.py lines 112-129: any provider but "opencode" is logged as
\* unknown and None is returned; else opencode_client.query_model is called
\* with the member's model.
Dispatch(member) ==
  IF member.provider # "opencode" THEN "unknown provider" ELSE "opencode"

QueryMember ==
  /\ pc = "configured"
  /\ provider_call' = Dispatch(council_member)
  /\ pc' = "queried"
  /\ UNCHANGED <<repo, call, model_str, openrouter_api_key, council_member, SessionVars>>

NextConfig == ConfigInit \/ QueryMember

SpecConfig == InitConfig /\ [][NextConfig]_vars

(***************************************************************************)
(* apply_changes_to_main and apply_changes_without_commit on their own:    *)
(* one call is drawn with everything the file system and the git commands  *)
(* it may run can answer, and the step is the call, which leaves the       *)
(* commands it ran (in order), what it returned or raised, the commits it  *)
(* made on the main line, the branch it left checked out and the state of  *)
(* the changes in the main repository.                                     *)
(***************************************************************************)
Strategies == {"merge", "cherry-pick", "rebase"}
CopyOutcomes == {"copied", "no files", "RuntimeError"}

\* exists: worktree_path.exists(); the other fields: whether the command
\* exits with 0 (diff: whether get_worktree_diff returns a non-empty text).
MainAnswers ==
  [exists : BOOLEAN, branch_name : BOOLEAN, checkout_main : BOOLEAN,
   checkout_master : BOOLEAN, merge : BOOLEAN, rev_parse : BOOLEAN,
   cherry_pick : BOOLEAN]

PatchAnswers ==
  [exists : BOOLEAN, diff : BOOLEAN, three_way : BOOLEAN, plain : BOOLEAN,
   copy : CopyOutcomes]

Pending(op, strategy, git) ==
  [op |-> op, strategy |-> strategy, git |-> git, log |-> <<>>,
   result |-> "pending", commits |-> 0, checked_out |-> "unchanged",
   changes |-> "none"]

Finished(c, log, result, made, checked_out, changes) ==
  [c EXCEPT !.log = log, !.result = result, !.commits = made,
            !.checked_out = checked_out, !.changes = changes]

\* Mutant: the return code of the merge or cherry-pick is not looked at.
apply_changes_to_main_FailureIgnored(c) ==
  LET g == c.git
      head == <<"rev-parse --abbrev-ref HEAD">>
      switched == IF g.checkout_main THEN <<"checkout main">>
                  ELSE <<"checkout main", "checkout master">>
      on == IF g.checkout_main THEN "main" ELSE "master"
  IN IF ~g.exists THEN Finished(c, <<>>, "ValueError", 0, "unchanged", "none")
     ELSE IF ~g.branch_name
     THEN Finished(c, head, "RuntimeError", 0, "unchanged", "none")
     ELSE IF ~g.checkout_main /\ ~g.checkout_master
     THEN Finished(c, head \o switched, "RuntimeError", 0, "unchanged", "none")
     ELSE IF c.strategy = "merge"
     THEN Finished(c, head \o switched \o <<"merge">>, "True",
                   IF g.merge THEN 1 ELSE 0, on, "none")
     ELSE IF c.strategy = "cherry-pick"
     THEN IF ~g.rev_parse
          THEN Finished(c, head \o switched \o <<"rev-parse">>, "True", 0, on, "none")
          ELSE Finished(c, head \o switched \o <<"rev-parse", "cherry-pick">>, "True",
                        IF g.cherry_pick THEN 1 ELSE 0, on, "none")
     ELSE Finished(c, head \o switched, "ValueError", 0, on, "none")

\* worktree_manager.py lines 217-279.  ValueError without the directory
\* (229-230); the branch of the worktree is read (233-238); 'checkout main'
\* and, if that fails, 'checkout master', RuntimeError if both fail
\* (243-249); 'merge --no-ff' (252-261), or 'rev-parse' and, if it exits
\* with 0, 'cherry-pick' (262-271), or ValueError for another strategy
\* (272-273), raised after the checkout; RuntimeError if the last command
\* failed (275-276), else True.
apply_changes_to_main(c) ==
  LET g == c.git
      head == <<"rev-parse --abbrev-ref HEAD">>
      switched == IF g.checkout_main THEN <<"checkout main">>
                  ELSE <<"checkout main", "checkout master">>
      on == IF g.checkout_main THEN "main" ELSE "master"
  IN IF ~g.exists THEN Finished(c, <<>>, "ValueError", 0, "unchanged", "none")
     ELSE IF ~g.branch_name
     THEN Finished(c, head, "RuntimeError", 0, "unchanged", "none")
     ELSE IF ~g.checkout_main /\ ~g.checkout_master
     THEN Finished(c, head \o switched, "RuntimeError", 0, "unchanged", "none")
     ELSE IF c.strategy = "merge"
     THEN IF g.merge
          THEN Finished(c, head \o switched \o <<"merge">>, "True", 1, on, "none")
          ELSE Finished(c, head \o switched \o <<"merge">>, "RuntimeError", 0, on,
                        "conflicts")
     ELSE IF c.strategy = "cherry-pick"
     THEN IF ~g.rev_parse
          THEN Finished(c, head \o switched \o <<"rev-parse">>, "RuntimeError", 0, on,
                        "none")
          ELSE IF g.cherry_pick
          THEN Finished(c, head \o switched \o <<"rev-parse", "cherry-pick">>, "True",
                        1, on, "none")
          ELSE Finished(c, head \o switched \o <<"rev-parse", "cherry-pick">>,
                        "RuntimeError", 0, on, "conflicts")
     ELSE Finished(c, head \o switched, "ValueError", 0, on, "none")

\* Lines 575-620: RuntimeError when 'diff --name-only HEAD' fails, False
\* when it lists no file, else the listed files are copied or deleted in
\* the main repository and True is returned.
_copy_changed_files(c, log) ==
  IF c.git.copy = "RuntimeError"
  THEN Finished(c, Append(log, "copy"), "RuntimeError", 0, "unchanged", "none")
  ELSE IF c.git.copy = "no files"
  THEN Finished(c, Append(log, "copy"), "False", 0, "unchanged", "none")
  ELSE Finished(c, Append(log, "copy"), "True", 0, "unchanged", "unstaged")

\* Mutant: the plain patch is tried before the three-way patch.
apply_changes_without_commit_PlainFirst(c) ==
  LET g == c.git
  IN IF ~g.exists THEN Finished(c, <<>>, "ValueError", 0, "unchanged", "none")
     ELSE IF ~g.diff THEN Finished(c, <<"diff">>, "False", 0, "unchanged", "none")
     ELSE IF g.plain
     THEN Finished(c, <<"diff", "apply">>, "True", 0, "unchanged", "unstaged")
     ELSE IF g.three_way
     THEN Finished(c, <<"diff", "apply", "apply --3way">>, "True", 0, "unchanged",
                   "staged")
     ELSE _copy_changed_files(c, <<"diff", "apply", "apply --3way">>)

\* Lines 281-340.  ValueError without the directory (296-297); False when
\* the diff is empty (300-304); 'git apply --3way' (311-318), which also
\* updates the index; if it fails 'git apply' (320-329); if that fails
\* _copy_changed_files (331-336); else True (338-339).  No command commits.
apply_changes_without_commit(c) ==
  LET g == c.git
  IN IF ~g.exists THEN Finished(c, <<>>, "ValueError", 0, "unchanged", "none")
     ELSE IF ~g.diff THEN Finished(c, <<"diff">>, "False", 0, "unchanged", "none")
     ELSE IF g.three_way
     THEN Finished(c, <<"diff", "apply --3way">>, "True", 0, "unchanged", "staged")
     ELSE IF g.plain
     THEN Finished(c, <<"diff", "apply --3way", "apply">>, "True", 0, "unchanged",
                   "unstaged")
     ELSE _copy_changed_files(c, <<"diff", "apply --3way", "apply">>)

InitApply ==
  /\ InitSession
  /\ pc = "apply"
  /\ repo = CleanRepo
  /\ model_str = <<>>
  /\ openrouter_api_key = FALSE
  /\ council_member = NoCouncilMember
  /\ provider_call = NotQueried
  /\ \/ \E s \in Strategies, g \in MainAnswers :
          call = Pending("apply_changes_to_main", s, g)
     \/ \E g \in PatchAnswers :
          call = Pending("apply_changes_without_commit", None, g)

ApplyChangesToMain ==
  /\ pc = "apply"
  /\ call.op = "apply_changes_to_main"
  /\ call.result = "pending"
  /\ call' = apply_changes_to_main(call)
  /\ UNCHANGED <<pc, repo, ConfigVars, SessionVars>>

ApplyChangesWithoutCommit ==
  /\ pc = "apply"
  /\ call.op = "apply_changes_without_commit"
  /\ call.result = "pending"
  /\ call' = apply_changes_without_commit(call)
  /\ UNCHANGED <<pc, repo, ConfigVars, SessionVars>>

NextApply == ApplyChangesToMain \/ ApplyChangesWithoutCommit

SpecApply == InitApply /\ [][NextApply]_vars

(***************************************************************************)
(* stage2_collect_rankings on its own: the Stage-1 results are drawn from  *)
(* every list Stage 1 can leave for the members that answered (a member    *)
(* with a workspace has an empty response, or Stage 1 would have raised,   *)
(* and only a member with a workspace has a diff), with texts in which the *)
(* word "Response" may occur, and the step is the building of the prompt   *)
(* and the fan-out.                                                        *)
(***************************************************************************)
WordResponse == Bare("Response", "")

PromptResponses == {<<>>, <<ProseTok>>, <<ProseTok, WordResponse>>}

PromptDiffs == {<<DiffTok>>, <<DiffTok, WordResponse>>}

\* The entries one member can have left.
PromptEntries(i, name, with_worktrees) ==
  {[member_index |-> i, model |-> name, response |-> resp, member_id |-> FALSE,
    diff |-> FALSE, diff_text |-> <<>>] : resp \in PromptResponses}
    \cup (IF with_worktrees
          THEN {[member_index |-> i, model |-> name, response |-> <<>>,
                 member_id |-> TRUE, diff |-> FALSE, diff_text |-> <<>>]}
                 \cup {[member_index |-> i, model |-> name, response |-> <<>>,
                        member_id |-> TRUE, diff |-> TRUE, diff_text |-> d] :
                         d \in PromptDiffs}
          ELSE {})

\* The members that answered, in configuration order.
Answered == {a \in UNION {[1 .. n -> Indices] : n \in 1 .. MemberCount} :
               \A k \in 1 .. Len(a) - 1 : a[k] < a[k + 1]}

InitPrompt ==
  /\ members \in MemberLists
  /\ no_commit = FALSE
  /\ use_worktrees \in BOOLEAN
  /\ merge_mode = Unread
  /\ merge_member = NoMember
  /\ confirm_merge = FALSE
  /\ pc = "stage1_done"
  /\ worktrees = {}
  /\ worktree_paths = {}
  /\ tasks = [i \in Indices |-> Idle]
  /\ responses = <<>>
  /\ \E a \in Answered :
       /\ stage1_results \in [1 .. Len(a) ->
            UNION {PromptEntries(i, members[i + 1], use_worktrees) : i \in Indices}]
       /\ \A k \in 1 .. Len(a) : stage1_results[k].member_index = a[k]
  /\ label_to_model = <<>>
  /\ stage2_results = <<>>
  /\ aggregate_rankings = <<>>
  /\ chairman = Idle
  /\ stage3_result = None
  /\ merge_result = NoMerge
  /\ merge_log = NoLog
  /\ target_member = NoTarget
  /\ commits = {}
  /\ main_line = <<>>
  /\ returned = "none"
  /\ completed = <<>>
  /\ processes = {}
  /\ ranking_prompt = NoPrompt
  /\ repo = CleanRepo
  /\ model_str = <<>>
  /\ openrouter_api_key = FALSE
  /\ council_member = NoCouncilMember
  /\ provider_call = NotQueried
  /\ call = NoApply

SpecPrompt == InitPrompt /\ [][Stage2FanOut]_vars

(***************************************************************************)
(* The claims.                                                             *)
(***************************************************************************)
AfterStage1 ==
  {"stage2_wait", "stage2_format", "aggregate", "stage3", "merge", "cleanup"}

\* C1: in a session with use_worktrees, every workspace created during the
\* session has been destroyed by the time run_full_council returns or
\* raises, whatever the outcome of the stages and of the merge.
C1_WorkspacesDestroyedOnExit ==
  (use_worktrees /\ returned # "none") => worktrees = {}

\* C2: the steps of one call occur in the fixed order Stage 1, Stage 2,
\* aggregate, Stage 3, merge decision (taken only with use_worktrees and a
\* merge mode), cleanup, return; a stage is left only when all its
\* invocations have resolved, no step is repeated, and the only other path
\* leads from Stage 1 to the error result when nobody responded.  (A call
\* refused at the signature never becomes a run_full_council call.)
C2_FixedStepOrder ==
  [][\/ pc' = pc
     \/ pc = "api_call"
     \/ /\ <<pc, pc'>> \in
             {<<"start", "stage1_create">>, <<"stage1_create", "stage1_fanout">>,
              <<"stage1_fanout", "stage1_wait">>, <<"stage1_wait", "stage1_format">>,
              <<"stage1_format", "stage1_done">>, <<"stage1_done", "stage2_wait">>,
              <<"stage1_done", "done">>, <<"stage2_wait", "stage2_format">>,
              <<"stage2_format", "aggregate">>, <<"aggregate", "stage3">>,
              <<"stage3", "merge">>, <<"merge", "cleanup">>, <<"cleanup", "done">>}
        /\ pc \in {"stage1_wait", "stage2_wait"} => AllResolved
        /\ <<pc, pc'>> = <<"stage1_done", "done">>
             => stage1_results = <<>> /\ returned' = "error"
        /\ <<pc, pc'>> = <<"stage1_done", "stage2_wait">> => stage1_results # <<>>
        /\ merge_result' # merge_result
             => pc = "merge" /\ use_worktrees /\ merge_mode' # None
        /\ <<pc, pc'>> = <<"cleanup", "done">> => returned' = "result"]_vars

\* C3: when no member produced a Stage-1 result the call returns the error
\* result with stage1 = [], stage2 = [] and stage3 = null, and neither a
\* Stage-2 invocation nor the chairman invocation nor a merge took place.
C3_NoResponsesIsError ==
  /\ (pc = "done" /\ stage1_results = <<>>) => returned = "error"
  /\ returned = "error"
       => /\ stage1_results = <<>> /\ stage2_results = <<>>
          /\ stage3_result = None /\ label_to_model = <<>>
          /\ merge_result = NoMerge /\ target_member = NoTarget
          /\ commits = {} /\ main_line = <<>>
  /\ pc \in AfterStage1 => stage1_results # <<>>

C3_Witness == returned = "error" /\ use_worktrees /\ worktree_paths # {}

\* C4: in a fan-out a failed invocation costs only its own member's result:
\* resolving one task leaves every other task as it was, and after the
\* fan-in exactly the members whose invocation succeeded have an entry,
\* with the content their own invocation produced.
C4_FailureIsLocal ==
  /\ [](pc \in {"stage1_format", "stage2_format"}
          => \A i \in Indices :
               /\ tasks[i].st \in {"ok", "failed"}
               /\ tasks[i].st = "ok"
                    <=> \E k \in 1 .. Len(responses) :
                          /\ responses[k].member_index = i
                          /\ responses[k].content = tasks[i].content)
  /\ [][\A i \in Indices :
          (tasks[i].st = "running" /\ tasks'[i].st # "running")
            => \A j \in Indices \ {i} : tasks'[j] = tasks[j]]_vars

C4_Witness ==
  /\ pc = "stage2_format"
  /\ tasks[0].st = "failed"
  /\ tasks[MemberCount - 1].st = "ok"
  /\ Len(responses) = MemberCount - 1

\* C5: the Stage-1 result list has at most one entry per configured member
\* and never more entries than members, and each entry's member_index is the
\* 0-based configuration position of the member whose invocation produced
\* it, also when members share a model name.
C5_Stage1MemberIndex ==
  /\ [](/\ Len(stage1_results) <= MemberCount
        /\ \A k \in 1 .. Len(stage1_results) :
             /\ stage1_results[k].member_index \in Indices
             /\ stage1_results[k].model
                  = members[stage1_results[k].member_index + 1]
             /\ \A j \in 1 .. Len(stage1_results) :
                  j # k => stage1_results[j].member_index
                             # stage1_results[k].member_index)
  /\ [][(pc = "stage1_format" /\ pc' = "stage1_done")
          => \A k \in 1 .. Len(stage1_results') :
               tasks[stage1_results'[k].member_index]
                 = Ok(stage1_results'[k].response)]_vars

C5_Witness ==
  /\ members[1] = members[MemberCount]
  /\ Len(stage1_results) = 1
  /\ stage1_results[1].member_index = MemberCount - 1
  /\ stage1_results[1].response # <<>>

\* C6: the i-th Stage-1 entry (0-based) carries the i-th uppercase letter,
\* label_to_model maps that label to the i-th entry's member, whoever failed
\* and whichever names are duplicated, and once computed the mapping is not
\* changed by Stage 3 or by the merge decision.
C6_PositionalLabels ==
  /\ [](pc \in AfterStage1 \cup {"done"} /\ returned # "error"
          => /\ DOMAIN label_to_model
                  = {<<"Response", Letters[k]>> : k \in 1 .. Len(stage1_results)}
             /\ \A k \in 1 .. Len(stage1_results) :
                  label_to_model[<<"Response", Letters[k]>>]
                    = members[stage1_results[k].member_index + 1])
  /\ [][(pc \in AfterStage1)
          => (label_to_model' = label_to_model
                /\ stage1_results' = stage1_results)]_vars

C6_Witness ==
  /\ pc = "done"
  /\ merge_result.status = "merged"
  /\ members[1] # members[MemberCount]
  /\ stage1_results[1].member_index = MemberCount - 1
  /\ label_to_model[<<"Response", "A">>] = members[MemberCount]

AfterMerge == pc \in {"cleanup", "done"} /\ returned # "error"

\* The position (1-based) in the Stage-1 result list of the entry a label
\* of the session's mapping stands for, 0 for any other label.
PositionOf(label) ==
  IF label \in DOMAIN label_to_model
  THEN CHOOSE k \in 1 .. Len(stage1_results) : ResponseLabel(k - 1) = label
  ELSE 0

HasDiffAt(k) == k # 0 /\ stage1_results[k].diff /\ stage1_results[k].member_id

\* C7: every label a rater returns in the format the session's Stage-2
\* prompt asks for, with a letter assigned in the session, is a key of the
\* session's label mapping (and so resolves to its member in the merge).
C7_PromptLabelsAreKeys ==
  pc \in {"aggregate", "stage3", "merge", "cleanup"}
    => \A r \in 1 .. Len(stage2_results) :
         \A p \in 1 .. Len(stage2_results[r].parsed_ranking) :
           LET label == stage2_results[r].parsed_ranking[p]
           IN (/\ label[1] = PromptKind(stage1_results, use_worktrees)
               /\ \E k \in 1 .. Len(stage1_results) : label[2] = Chr65(k - 1))
                => label \in DOMAIN label_to_model

RECURSIVE FirstRankedWithDiff(_)
\* The member_index of the entry of the first label, from rank k on, whose
\* member produced a non-empty diff; NoTarget when there is none.
FirstRankedWithDiff(k) ==
  IF k > Len(aggregate_rankings) THEN NoTarget
  ELSE IF HasDiffAt(PositionOf(aggregate_rankings[k].label))
       THEN stage1_results[PositionOf(aggregate_rankings[k].label)].member_index
       ELSE FirstRankedWithDiff(k + 1)

\* C8: in auto mode the merge target is the member of the first label, in
\* aggregate-ranking order, whose member produced a non-empty diff, and the
\* selection fails only when no ranked label belongs to such a member.
C8_AutoTargetIsFirstRankedWithDiff ==
  (AfterMerge /\ use_worktrees /\ merge_mode = "auto"
     /\ MembersWithDiffs(stage1_results) # <<>>)
    => target_member = FirstRankedWithDiff(1)

RECURSIVE SelectedRank(_)
\* The rank of the label at which the scan of lines 519-537 stopped.
SelectedRank(k) ==
  IF MatchingModel(MembersWithDiffs(stage1_results),
                   Get(label_to_model, aggregate_rankings[k].label)) # <<>>
  THEN k ELSE SelectedRank(k + 1)

\* C9: the Stage-1 entry chosen as auto-merge target is the entry at the
\* selected label's position, never another member with the same model name.
C9_AutoTargetIsLabelledEntry ==
  (AfterMerge /\ use_worktrees /\ merge_mode = "auto" /\ target_member # NoTarget)
    => stage1_results[PositionOf(aggregate_rankings[SelectedRank(1)].label)]
         .member_index = target_member

\* C10: in manual mode with 1-based index n, when some member produced a
\* diff, the target is the Stage-1 entry with member_index n - 1 and a
\* non-empty diff; a missing or out-of-range n, or one naming a member
\* without a diff, gives status error without raising, without a commit
\* and without a change to the main line.
C10_ManualTarget ==
  (AfterMerge /\ use_worktrees /\ merge_mode = "manual"
     /\ MembersWithDiffs(stage1_results) # <<>>)
    => IF /\ merge_member # NoMember
          /\ \E k \in 1 .. Len(stage1_results) :
               /\ stage1_results[k].member_index = merge_member - 1
               /\ stage1_results[k].diff
       THEN target_member = merge_member - 1
       ELSE /\ merge_result.status = "error"
            /\ target_member = NoTarget
            /\ commits = {} /\ main_line = <<>>
            /\ returned # "raised"

C10_Witness ==
  /\ pc = "done"
  /\ merge_mode = "manual"
  /\ merge_member = MemberCount
  /\ Len(stage1_results) = MemberCount
  /\ merge_result.status = "merged"
  /\ main_line = <<MemberCount - 1>>

\* The merge decision was taken in this session: _handle_merge was called.
MergeTaken == AfterMerge /\ use_worktrees /\ merge_mode # None

\* The number of Stage-1 entries that carry a non-empty diff.
DiffCount == Cardinality({k \in 1 .. Len(stage1_results) : stage1_results[k].diff})

\* C11: in dry-run mode with at least one non-empty diff the merge decision
\* returns status dry_run with members_with_diffs equal to the number of
\* Stage-1 entries with a non-empty diff, asks nothing, commits in no
\* workspace and leaves the main line alone, whatever index and confirm are.
C11_DryRunChangesNothing ==
  (MergeTaken /\ merge_mode = "dry-run" /\ DiffCount > 0)
    => /\ merge_result.status = "dry_run"
       /\ merge_result.members_with_diffs = DiffCount
       /\ merge_log = NoLog
       /\ target_member = NoTarget
       /\ commits = {} /\ main_line = <<>>

C11_Witness ==
  /\ pc = "done"
  /\ merge_mode = "dry-run"
  /\ confirm_merge /\ merge_member = 1
  /\ Len(stage1_results) = MemberCount
  /\ DiffCount = 1
  /\ \A k \in 1 .. Len(stage1_results) : stage1_results[k].member_id
  /\ merge_result.status = "dry_run"

\* The answers that consent: 'y' in either case, blanks around it or not,
\* and the word itself.
Affirmative == {<<"y">>, <<" ", "Y", " ">>, <<"y", "e", "s">>}

\* C12: with confirm requested in auto or manual mode and a target selected,
\* the commit and the integration happen only after an affirmative answer,
\* and every other answer gives status cancelled, not error, with no commit
\* in the target's workspace and the main line unchanged.
C12_ConfirmGuardsTheMerge ==
  (MergeTaken /\ merge_mode \in {"auto", "manual"} /\ confirm_merge
     /\ target_member # NoTarget)
    => /\ merge_log.answer # NotAsked
       /\ (merge_log.commit # NotCalled \/ merge_log.apply # NotCalled
             \/ commits # {} \/ main_line # <<>>)
            => merge_log.answer \in Affirmative
       /\ merge_log.answer \notin Affirmative
            => /\ merge_result.status = "cancelled"
               /\ merge_log.commit = NotCalled /\ merge_log.apply = NotCalled
               /\ commits = {} /\ main_line = <<>>

C12_Witness ==
  /\ pc = "done"
  /\ merge_mode = "auto" /\ confirm_merge
  /\ merge_log.answer = <<>>
  /\ target_member # NoTarget
  /\ merge_result.status = "cancelled"

\* C13: when committing the selected member's workspace reports that there
\* is nothing to commit, the merge decision returns status error and the
\* integration into the main line is never attempted.
C13_NothingToCommitIsError ==
  (MergeTaken /\ merge_log.commit = "nothing")
    => /\ merge_result.status = "error"
       /\ merge_log.apply = NotCalled
       /\ commits = {} /\ main_line = <<>>

C13_Witness ==
  /\ pc = "done"
  /\ merge_mode = "manual"
  /\ target_member = MemberCount - 1
  /\ merge_log.commit = "nothing"
  /\ merge_result.status = "error"

\* C14: a session run with no_commit requested reaches the orchestrator with
\* the flag, and when a merge target is selected (and confirmed, if confirm
\* is requested) the change-set is applied unstaged to the main line instead
\* of being merged, and the merge status is applied.
C14_NoCommitAppliesUnstaged ==
  /\ [][(pc = "api_call" /\ no_commit) => pc' = "start"]_vars
  /\ []((no_commit /\ MergeTaken /\ merge_mode \in {"auto", "manual"}
           /\ target_member # NoTarget
           /\ (confirm_merge => merge_log.answer \in Affirmative))
          => /\ merge_result.status = "applied"
             /\ merge_log.commit = NotCalled
             /\ merge_log.apply = "unstaged")

\* C15: a failure while committing or integrating the selected change-set
\* comes back as merge_result with status error inside an otherwise complete
\* session result; the session does not raise, and the cleanup still runs.
C15_MergeFailureIsNotFatal ==
  (MergeTaken /\ (merge_log.commit = "error" \/ merge_log.apply = "error"))
    => /\ merge_result.status = "error"
       /\ returned \in {"none", "result"}
       /\ stage1_results # <<>> /\ stage3_result # None
       /\ pc = "cleanup" => ENABLED Cleanup
       /\ pc = "done" => (returned = "result" /\ worktrees = {})

C15_Witness ==
  /\ pc = "done"
  /\ merge_log.commit = "committed" /\ merge_log.apply = "error"
  /\ merge_result.status = "error"
  /\ returned = "result"
  /\ worktree_paths # {} /\ worktrees = {}

\* C16: when no Stage-1 entry has a non-empty diff the merge decision
\* returns status no_changes in every merge mode, for every index and
\* confirm, without asking, committing or changing the main line.
C16_NoDiffIsNoChanges ==
  (MergeTaken /\ DiffCount = 0)
    => /\ merge_result.status = "no_changes"
       /\ merge_log = NoLog
       /\ target_member = NoTarget
       /\ commits = {} /\ main_line = <<>>

C16_Witness ==
  /\ pc = "done"
  /\ merge_mode = "manual" /\ merge_member = 1 /\ confirm_merge
  /\ Len(stage1_results) = MemberCount
  /\ \A k \in 1 .. Len(stage1_results) :
       stage1_results[k].member_id /\ ~stage1_results[k].diff
  /\ merge_result.status = "no_changes"

\* C17: when the chairman invocation fails, Stage 3 yields the fixed
\* fallback message, and the session goes on to the merge decision and the
\* cleanup and returns a result that is no error.
C17_ChairmanFailureIsNotFatal ==
  chairman = Failed
    => /\ stage3_result = FallbackMessage
       /\ pc \in {"merge", "cleanup", "done"}
       /\ returned \in {"none", "result"}
       /\ pc = "merge" => ENABLED MergeDecision
       /\ pc = "cleanup" => ENABLED Cleanup
       /\ pc = "done" => returned = "result"

C17_Witness ==
  /\ pc = "done"
  /\ chairman = Failed
  /\ merge_result.status = "merged"
  /\ returned = "result"

\* C18: when at least one member responds in Stage 1 the call returns a
\* session result that is no error, whatever happens in Stage 2; when every
\* member fails or returns an unparseable ranking in Stage 2, Stage 3 is
\* still performed and the result carries an empty aggregate ranking.
C18_OnlyNoResponseIsFatal ==
  /\ [][(pc = "stage1_format" /\ responses # <<>>)
          => (pc' = "stage1_done" /\ stage1_results' # <<>>)]_vars
  /\ []((stage1_results # <<>> /\ returned # "none")
          => /\ returned = "result"
             /\ chairman # Idle /\ stage3_result # None
             /\ (\A r \in 1 .. Len(stage2_results) :
                    stage2_results[r].parsed_ranking = <<>>)
                  => aggregate_rankings = <<>>)

\* The raters' parsed sequences, in Stage-2 result order.
Parsed == [r \in 1 .. Len(stage2_results) |-> stage2_results[r].parsed_ranking]

\* Where a label occurs: <<rater, position>>, both 1-based.
OccurrencesOf(label) ==
  {<<r, p>> \in (1 .. Len(Parsed)) \X (1 .. MaxRankLen) :
     p <= Len(Parsed[r]) /\ Parsed[r][p] = label}

Mentioned == {Parsed[r][p] : <<r, p>> \in
                {x \in (1 .. Len(Parsed)) \X (1 .. MaxRankLen) : x[2] <= Len(Parsed[x[1]])}}

RECURSIVE SumOfPoints(_)
\* The sum of k - p + 1 over a set of occurrences.
SumOfPoints(occ) ==
  IF occ = {} THEN 0
  ELSE LET o == CHOOSE x \in occ : TRUE
       IN (Len(Parsed[o[1]]) - o[2] + 1) + SumOfPoints(occ \ {o})

Aggregated == pc = "stage3"

\* C19: calculate_aggregate_rankings lists exactly the labels some rater
\* mentioned, each once, and gives each the arithmetic mean, over all its
\* occurrences in all raters' parsed sequences, of k - p + 1, k the length
\* of the sequence holding the occurrence and p its 1-based position.
C19_ScoreIsMeanOfPoints ==
  Aggregated
    => /\ {aggregate_rankings[i].label : i \in 1 .. Len(aggregate_rankings)} = Mentioned
       /\ Len(aggregate_rankings) = Cardinality(Mentioned)
       /\ \A i \in 1 .. Len(aggregate_rankings) :
            LET occ == OccurrencesOf(aggregate_rankings[i].label)
                score == aggregate_rankings[i].score
            IN /\ score.den > 0
               /\ score.num * Cardinality(occ) = SumOfPoints(occ) * score.den

C19_Witness ==
  /\ Aggregated
  /\ Parsed = <<<<<<"Response", "A">>, <<"Response", "B">>, <<"Response", "A">>>>,
               <<<<"Response", "B">>, <<"Response", "C">>>>>>
  /\ \E i \in 1 .. Len(aggregate_rankings) :
       /\ aggregate_rankings[i].label = <<"Response", "B">>
       /\ aggregate_rankings[i].score = [num |-> 2, den |-> 1]
  /\ \E i \in 1 .. Len(aggregate_rankings) :
       /\ aggregate_rankings[i].label = <<"Response", "C">>
       /\ aggregate_rankings[i].score = [num |-> 1, den |-> 1]

\* The first occurrence of a label when the sequences are scanned in
\* Stage-2 result order: the rater, then the position.
FirstAppearance(label) ==
  CHOOSE o \in OccurrencesOf(label) :
    \A x \in OccurrencesOf(label) :
      o[1] < x[1] \/ (o[1] = x[1] /\ o[2] <= x[2])

Before(a, b) == a[1] < b[1] \/ (a[1] = b[1] /\ a[2] < b[2])

\* C20: the aggregate ranking is in descending order of mean score, labels
\* of equal mean in the order of their first appearance in the scan of the
\* parsed sequences; [[A,B,C],[B,A,C]] gives A (2.5), B (2.5), C (1).
C20_DescendingFirstAppearance ==
  Aggregated
    => /\ \A i, j \in 1 .. Len(aggregate_rankings) :
            i < j =>
              LET a == aggregate_rankings[i]
                  b == aggregate_rankings[j]
              IN /\ a.score.num * b.score.den >= b.score.num * a.score.den
                 /\ a.score.num * b.score.den = b.score.num * a.score.den
                      => Before(FirstAppearance(a.label), FirstAppearance(b.label))
       /\ Parsed = <<<<<<"Response", "A">>, <<"Response", "B">>, <<"Response", "C">>>>,
                    <<<<"Response", "B">>, <<"Response", "A">>, <<"Response", "C">>>>>>
            => aggregate_rankings =
                 <<[label |-> <<"Response", "A">>, score |-> [num |-> 5, den |-> 2]],
                   [label |-> <<"Response", "B">>, score |-> [num |-> 5, den |-> 2]],
                   [label |-> <<"Response", "C">>, score |-> [num |-> 1, den |-> 1]]>>

C20_Witness ==
  /\ Aggregated
  /\ Parsed = <<<<<<"Response", "A">>, <<"Response", "B">>, <<"Response", "C">>>>,
               <<<<"Response", "B">>, <<"Response", "A">>, <<"Response", "C">>>>>>
  /\ Len(aggregate_rankings) = 3
  /\ aggregate_rankings[1].label = <<"Response", "A">>
  /\ aggregate_rankings[1].score = aggregate_rankings[2].score

\* Every label a parser result can hold.
AllLabels == Kinds \X {Letters[k] : k \in 1 .. Len(Letters)}

\* How often a label is listed in the aggregate ranking.
TimesListed(label) ==
  Cardinality({i \in 1 .. Len(aggregate_rankings) : aggregate_rankings[i].label = label})

\* C21: the labels of the aggregate ranking are exactly the labels that
\* occur in at least one parsed ranking: a label no rater ranked is not
\* listed, and a label some rater ranked is listed exactly once, however
\* often and by however many raters it was ranked.
C21_AggregateLabelsAreRankedLabels ==
  Aggregated
    => \A label \in AllLabels :
         TimesListed(label) = IF OccurrencesOf(label) # {} THEN 1 ELSE 0

C21_Witness ==
  /\ Aggregated
  /\ Len(Parsed) = 2
  /\ Cardinality(OccurrencesOf(<<"Response", "A">>)) = 3
  /\ OccurrencesOf(<<"Response", "C">>) = {}
  /\ TimesListed(<<"Response", "A">>) = 1
  /\ Len(aggregate_rankings) = 2

\* The position of the first marker of a text that holds one.
FirstMarker(text) ==
  CHOOSE p \in 1 .. Len(text) :
    text[p] = MarkerTok /\ \A q \in 1 .. (p - 1) : text[q] # MarkerTok

RECURSIVE LabelsOfNumbered(_)
\* The "<kind> <letter>" of every numbered item of a text, in order.
LabelsOfNumbered(text) ==
  IF text = <<>> THEN <<>>
  ELSE (IF Head(text)[1] = "numbered" THEN <<<<Head(text)[2], Head(text)[3]>>>> ELSE <<>>)
       \o LabelsOfNumbered(Tail(text))

\* C22: _parse_ranking_from_text gives the empty sequence for a text
\* without the marker; for a text with the marker it gives the label of
\* every numbered "Response X" / "Proposal X" item of everything after the
\* (first) marker, in order of appearance and with repetitions, also when
\* the marker occurs again further down.
C22_ParserTakesEverythingAfterMarker ==
  pc = "aggregate"
    => \A r \in 1 .. Len(stage2_results) :
         LET text == stage2_results[r].ranking
         IN stage2_results[r].parsed_ranking =
              IF \A p \in 1 .. Len(text) : text[p] # MarkerTok THEN <<>>
              ELSE LabelsOfNumbered(SubSeq(text, FirstMarker(text) + 1, Len(text)))

\* C23: in a session with use_worktrees every Stage-1 invocation runs in
\* the workspace of its own member, none in the main repository, also when
\* create_worktree failed for some member.
C23_Stage1RunsInOwnWorkspace ==
  (use_worktrees /\ pc = "stage1_wait")
    => \A i \in Indices : Cwd(i) = WorktreePath(i)

\* The last WorktreeManager call was op, and it returned.
Returned(op) == pc = "repo" /\ repo.last.op = op /\ repo.last.ok

\* C24: after create_worktree(member_id) has returned, the member has one
\* workspace (its directory, registered with git), no uncommitted change in
\* it, and its branch starts at the HEAD of the main repository with no
\* commit on top, whatever directory, registration or council branch of
\* that id existed before the call.
C24_CreateStartsAtBaseline ==
  Returned("create_worktree")
    => LET id == repo.last.member_id
       IN /\ id \in repo.dirs /\ id \in repo.records
          /\ id \notin repo.dirty
          /\ repo.branches[id] = Branch(repo.head, 0)

\* C25: after remove_worktree(member_id), called for a member whose
\* directory exists, neither that directory nor the member's branch exists,
\* and the call returned whether or not git removed the working copy.
C25_RemoveTakesDirectoryAndBranch ==
  (pc = "repo" /\ repo.last.op = "remove_worktree"
     /\ repo.last.member_id \in repo.last.found.dirs)
    => /\ repo.last.ok
       /\ repo.last.member_id \notin repo.dirs
       /\ ~repo.branches[repo.last.member_id].exists

\* C26: after cleanup_all_worktrees no directory is left under
\* worktrees_dir, git has no worktree registration there and no council/*
\* branch exists, whatever directories, registrations and branches the call
\* found.
C26_CleanupLeavesNothing ==
  Returned("cleanup_all_worktrees")
    => /\ repo.dirs = {}
       /\ repo.records = {}
       /\ \A id \in WorkspaceIds : ~repo.branches[id].exists

C26_Witness ==
  /\ Returned("cleanup_all_worktrees")
  /\ \E a, b \in WorkspaceIds :
       /\ a \in repo.last.found.records \ repo.last.found.dirs
       /\ repo.last.found.branches[a].commits > 0
       /\ b \in repo.last.found.dirs \ repo.last.found.records
       /\ repo.last.found.branches[b].exists
  /\ repo.dirs = {} /\ repo.records = {}
  /\ \A id \in WorkspaceIds : repo.branches[id] = NoBranch

\* A model string of the form provider/model whose first segment names
\* neither opencode nor openrouter, such as anthropic/claude-3.
Unprefixed ==
  Len(model_str) >= 2 /\ LowerSegment(Head(model_str)) \notin known_providers

\* C27: a model string given without the opencode/ prefix is an OpenCode
\* member: Config accepts it with provider opencode and the whole string as
\* its model, and query_member hands it to the OpenCode CLI instead of
\* rejecting it as an unknown provider.
C27_UnprefixedIsOpenCode ==
  Unprefixed
    => /\ pc # "raised"
       /\ pc \in {"configured", "queried"}
            => /\ council_member.provider = "opencode"
               /\ council_member.model = model_str
       /\ pc = "queried" => provider_call = "opencode"

\* A Stage-2 result whose text held no ranking the parser could read.
EmptyRater == [model |-> "m1", ranking |-> <<ProseTok>>, parsed_ranking |-> <<>>]

\* seq with x put in behind its first p elements.
InsertAt(seq, p, x) == SubSeq(seq, 1, p) \o <<x>> \o SubSeq(seq, p + 1, Len(seq))

\* The results at the positions outside drop, in their order.
Without(results, drop) ==
  LET F[k \in 0 .. Len(results)] ==
        IF k = 0 THEN <<>>
        ELSE IF k \in drop THEN F[k - 1] ELSE Append(F[k - 1], results[k])
  IN F[Len(results)]

EmptyPositions == {r \in 1 .. Len(stage2_results) : Parsed[r] = <<>>}

\* C28: a rater whose parsed ranking is empty contributes nothing: the
\* aggregate ranking of the Stage-2 results (labels, scores and order) is
\* the one of the results with any of the empty raters removed, and the
\* one of the results with one or two empty raters added anywhere.
C28_EmptyRankingContributesNothing ==
  Aggregated
    => /\ \A drop \in SUBSET EmptyPositions :
            calculate_aggregate_rankings(Without(stage2_results, drop))
              = aggregate_rankings
       /\ \A p \in 0 .. Len(stage2_results) :
            /\ calculate_aggregate_rankings(InsertAt(stage2_results, p, EmptyRater))
                 = aggregate_rankings
            /\ \A q \in 0 .. (Len(stage2_results) + 1) :
                 calculate_aggregate_rankings(
                   InsertAt(InsertAt(stage2_results, p, EmptyRater), q, EmptyRater))
                   = aggregate_rankings

C28_Witness ==
  /\ Aggregated
  /\ Len(Parsed) = 2
  /\ Parsed[1] = <<>>
  /\ Parsed[2] = <<<<"Response", "B">>, <<"Response", "A">>>>
  /\ aggregate_rankings =
       <<[label |-> <<"Response", "B">>, score |-> [num |-> 2, den |-> 1]],
         [label |-> <<"Response", "A">>, score |-> [num |-> 1, den |-> 1]]>>

\* The members of a code session that are no merge candidates: those whose
\* create_worktree raised, and those whose entry carries no diff
\* (get_worktree_diff raised, or found nothing).
CreationFailed == IF use_worktrees THEN Indices \ worktree_paths ELSE {}

DiffMissing ==
  {stage1_results[k].member_index : k \in
     {j \in 1 .. Len(stage1_results) :
        stage1_results[j].member_id /\ ~stage1_results[j].diff}}

\* C29: in a session with use_worktrees, a member whose workspace could
\* not be created or whose diff could not be taken is never the merge
\* target, in any mode; and with such a failure every member that
\* responded still gets its Stage-1 entry, and the session still goes
\* through Stage 2, Stage 3 and the cleanup to its result.
C29_WorkspaceFailureIsLocal ==
  /\ [](target_member # NoTarget
          => target_member \notin CreationFailed \cup DiffMissing)
  /\ [][(pc = "stage1_format" /\ CreationFailed # {} /\ responses # <<>>)
          => /\ pc' = "stage1_done"
             /\ Len(stage1_results') = Len(responses)]_vars
  /\ []((CreationFailed \cup DiffMissing # {} /\ stage1_results # <<>>
           /\ returned # "none")
          => /\ returned = "result"
             /\ chairman # Idle /\ stage3_result # None
             /\ worktrees = {})

\* Some member invocation of a fan-out has been started and has not resolved.
InFlight == \E i \in Indices : tasks[i].st = "running"

\* A step that creates or destroys a workspace, takes the diffs, commits in
\* a workspace or integrates into the main line.
WorkspaceStep ==
  \/ worktree_paths' # worktree_paths
  \/ worktrees' # worktrees
  \/ pc = "stage1_format" /\ pc' # pc
  \/ commits' # commits
  \/ main_line' # main_line

\* C30: no workspace is created, diffed, committed or destroyed while a
\* member invocation is in flight, and none of it is done by a member task:
\* such a step is taken by the orchestrating flow with no invocation
\* running and resolves none; the workspaces are all created in the one
\* step before the Stage-1 fan-out, and the diffs are taken only in the
\* formatting step that follows the Stage-1 fan-in.
C30_WorkspaceStepsOutsideFanOut ==
  /\ [][WorkspaceStep
          => /\ ~InFlight
             /\ \A i \in Indices : tasks'[i].st # "running"
             /\ pc \in {"start", "stage1_create", "stage1_format", "merge", "cleanup"}]_vars
  /\ [][worktree_paths' # worktree_paths
          => /\ pc = "stage1_create" /\ pc' = "stage1_fanout"
             /\ \A i \in Indices : tasks[i] = Idle]_vars
  /\ [][stage1_results' # stage1_results
          => /\ pc = "stage1_format"
             /\ \A i \in Indices : tasks[i].st \in {"ok", "failed"}
             /\ responses = Responses(tasks, 0)]_vars
  /\ [](InFlight => pc \in {"stage1_wait", "stage2_wait"})

C30_Witness ==
  /\ pc = "done"
  /\ use_worktrees
  /\ worktree_paths = Indices
  /\ \E k \in 1 .. Len(stage1_results) : stage1_results[k].diff
  /\ commits # {}
  /\ main_line # <<>>
  /\ worktrees = {}


(***************************************************************************)
(* C31.  The result lists of Stage 1 and Stage 2 do not depend on the      *)
(* order in which the concurrent invocations complete: whatever the order  *)
(* in completed, the list the fan-in hands to the stage names the members  *)
(* that answered in ascending configuration order, each with its own       *)
(* index, name and content, and so do the Stage-1 results the labels are   *)
(* assigned to.  No invocation's input depends on another invocation of    *)
(* the same stage: while the stage waits, a resolving invocation changes   *)
(* no other invocation's state, nor the prompt, the working directories or *)
(* the member list the invocations were started with.                      *)
(***************************************************************************)
Ascending(list) ==
  \A k \in 1 .. Len(list) - 1 : list[k].member_index < list[k + 1].member_index

Waiting == pc \in {"stage1_wait", "stage2_wait"}

C31_ResultsIgnoreCompletionOrder ==
  /\ [](/\ pc \in {"stage1_format", "stage2_format"}
           => /\ Ascending(responses)
              /\ {responses[k].member_index : k \in 1 .. Len(responses)}
                   = {i \in Indices : tasks[i].st = "ok"}
              /\ \A k \in 1 .. Len(responses) :
                   /\ responses[k].content = tasks[responses[k].member_index].content
                   /\ responses[k].full_name = members[responses[k].member_index + 1]
        /\ Ascending(stage1_results))
  /\ [][(Waiting /\ pc' = pc)
          => /\ \E i \in Indices :
                  /\ tasks[i].st = "running"
                  /\ \A j \in Indices \ {i} : tasks'[j] = tasks[j]
             /\ UNCHANGED <<ranking_prompt, worktree_paths, use_worktrees, members,
                            stage1_results, label_to_model>>]_vars

\* Both members answered, the second before the first, and the list is in
\* configuration order all the same.
C31_Witness ==
  /\ pc \in {"stage1_format", "stage2_format"}
  /\ completed = <<1, 0>>
  /\ Len(responses) = 2
  /\ responses[1].member_index = 0


(***************************************************************************)
(* C32.  A timed-out invocation leaves no process behind: whenever an      *)
(* invocation has resolved, its process has ended or been stopped, so that *)
(* no member process runs unawaited in a workspace or in the main          *)
(* repository, neither while the stage still waits for the other members   *)
(* nor after the fan-in, while the diffs are taken, the later stages run,  *)
(* the merge is decided and the workspaces are destroyed.                  *)
(***************************************************************************)
C32_TimedOutProcessIsStopped == processes = {}


(***************************************************************************)
(* C33.  apply_changes_without_commit tries its strategies in the order    *)
(* three-way patch, plain patch, copy of the files: the strategies it ran  *)
(* are an initial part of that order, each one but the last failed, a      *)
(* strategy that succeeded is the last one run and makes the call return   *)
(* True, and the call makes no commit on the main line and leaves the      *)
(* checked-out branch alone.                                               *)
(***************************************************************************)
StrategyOrder == <<"apply --3way", "apply", "copy">>

Ran(op) == pc = "apply" /\ call.op = op /\ call.result # "pending"

StrategiesRun == SelectSeq(call.log, LAMBDA cmd : cmd # "diff")

Succeeded(strategy) ==
  \/ strategy = "apply --3way" /\ call.git.three_way
  \/ strategy = "apply" /\ call.git.plain
  \/ strategy = "copy" /\ call.git.copy = "copied"

C33_StrategiesInOrder ==
  Ran("apply_changes_without_commit")
    => /\ Len(StrategiesRun) <= Len(StrategyOrder)
       /\ \A k \in 1 .. Len(StrategiesRun) :
            /\ StrategiesRun[k] = StrategyOrder[k]
            /\ k < Len(StrategiesRun) => ~Succeeded(StrategiesRun[k])
            /\ Succeeded(StrategiesRun[k])
                 => k = Len(StrategiesRun) /\ call.result = "True"
       /\ (call.git.exists /\ call.git.diff) => StrategiesRun # <<>>
       /\ (call.result = "True") => Succeeded(StrategiesRun[Len(StrategiesRun)])
       /\ call.commits = 0
       /\ call.checked_out = "unchanged"

\* The three-way patch and the plain patch failed and the files were copied.
C33_Witness ==
  /\ Ran("apply_changes_without_commit")
  /\ StrategiesRun = StrategyOrder
  /\ call.result = "True"

(***************************************************************************)
(* C34.  apply_changes_to_main switches the main repository to 'main' and  *)
(* tries 'master' only if that switch failed; the merge or cherry-pick is  *)
(* run only after one of the two switches succeeded; and the call returns  *)
(* True only if the merge or cherry-pick succeeded: if both switches fail, *)
(* or the merge or cherry-pick fails, it raises.                           *)
(***************************************************************************)
Position(cmd) ==
  IF \E k \in 1 .. Len(call.log) : call.log[k] = cmd
  THEN CHOOSE k \in 1 .. Len(call.log) : call.log[k] = cmd
  ELSE 0

Raised == call.result \in {"ValueError", "RuntimeError"}

C34_MainThenMasterThenMerge ==
  Ran("apply_changes_to_main")
    => /\ Position("checkout master") # 0
            => /\ Position("checkout main") = Position("checkout master") - 1
               /\ ~call.git.checkout_main
       /\ \A cmd \in {"merge", "cherry-pick"} :
            Position(cmd) # 0
              => /\ Position("checkout main") # 0
                 /\ Position("checkout main") < Position(cmd)
                 /\ \/ call.git.checkout_main
                    \/ /\ call.git.checkout_master
                       /\ Position("checkout master") # 0
                       /\ Position("checkout master") < Position(cmd)
       /\ (call.git.exists /\ call.git.branch_name
             /\ ~call.git.checkout_main /\ ~call.git.checkout_master)
            => Raised /\ call.commits = 0
       /\ call.result = "True"
            <=> \/ Position("merge") # 0 /\ call.git.merge
                \/ Position("cherry-pick") # 0 /\ call.git.cherry_pick
       /\ call.result # "True" => Raised /\ call.commits = 0
       /\ call.result = "True" => call.commits = 1

\* 'main' could not be checked out, 'master' could, and the merge was made.
C34_Witness ==
  /\ Ran("apply_changes_to_main")
  /\ call.log = <<"rev-parse --abbrev-ref HEAD", "checkout main", "checkout master", "merge">>
  /\ call.result = "True"
  /\ call.checked_out = "master"


(***************************************************************************)
(* C35.  cleanup_all_worktrees is idempotent: a call made right after      *)
(* another call of it leaves the branches, the worktree registrations, the *)
(* directories under worktrees_dir and the main line exactly as it found   *)
(* them, and a call that finds nothing to remove completes without error.  *)
(***************************************************************************)
CleanupStep ==
  /\ pc = "repo"
  /\ repo'.last.op = "cleanup_all_worktrees"
  /\ repo'.last.found = Found(repo)

NothingToRemove(r) ==
  /\ r.dirs = {}
  /\ r.records = {}
  /\ \A id \in WorkspaceIds : ~r.branches[id].exists

C35_CleanupIsIdempotent ==
  /\ [][(CleanupStep /\ repo.last.op = "cleanup_all_worktrees")
          => Found(repo') = Found(repo) /\ repo'.last.ok]_vars
  /\ [][(CleanupStep /\ NothingToRemove(repo))
          => Found(repo') = Found(repo) /\ repo'.last.ok]_vars

\* The second of two calls in a row has returned, with the repository as
\* the first call left it.
C35_Witness ==
  /\ Returned("cleanup_all_worktrees")
  /\ repo.last.after = "cleanup_all_worktrees"
  /\ repo.last.found = Found(repo)


(***************************************************************************)
(* C36.  The ranking prompt holds exactly one labelled block per Stage-1   *)
(* entry, in Stage-1 order, the k-th under the k-th letter; the content of *)
(* a block is the entry's diff when diffs are reviewed (the session is in  *)
(* code mode and some entry has a diff) and the entry has one, and the     *)
(* entry's response text otherwise, unaltered; and the one prompt, which   *)
(* holds every rater's own entry, is what every rater is sent.             *)
(***************************************************************************)
Prompted == pc = "stage2_wait"

HeaderPositions(text) == {p \in 1 .. Len(text) : text[p][1] = "header"}

\* The position of the k-th header of the text.
HeaderAt(text, k) ==
  CHOOSE p \in HeaderPositions(text) :
    Cardinality({q \in HeaderPositions(text) : q <= p}) = k

\* What the text holds between the k-th header and the next.
ContentOf(text, k) ==
  LET from == HeaderAt(text, k)
      to == IF k < Cardinality(HeaderPositions(text))
            THEN HeaderAt(text, k + 1) - 1 ELSE Len(text)
  IN SubSeq(text, from + 1, to)

DiffsReviewed ==
  use_worktrees /\ \E k \in 1 .. Len(stage1_results) : stage1_results[k].diff

C36_OneBlockPerEntry ==
  Prompted
    => /\ Cardinality(HeaderPositions(ranking_prompt.text)) = Len(stage1_results)
       /\ \A k \in 1 .. Len(stage1_results) :
            /\ ranking_prompt.text[HeaderAt(ranking_prompt.text, k)][3] = Chr65(k - 1)
            /\ ContentOf(ranking_prompt.text, k)
                 = IF DiffsReviewed /\ stage1_results[k].diff
                   THEN stage1_results[k].diff_text
                   ELSE stage1_results[k].response
       /\ \A i \in Indices : tasks[i].st # "idle"


(***************************************************************************)
(* C37.  The ranking prompt does not depend on member identity: a session  *)
(* whose Stage-1 results carry the same response and diff texts at the     *)
(* same positions, written by members of any other names and configured    *)
(* positions, builds the very prompt this session built.                   *)
(***************************************************************************)
Identities == Names \X Indices

\* The Stage-1 results with the k-th entry written by member who[k].
WrittenBy(results, who) ==
  [k \in 1 .. Len(results) |->
     [results[k] EXCEPT !.model = who[k][1], !.member_index = who[k][2]]]

C37_PromptIgnoresIdentity ==
  Prompted
    => \A who \in [1 .. Len(stage1_results) -> Identities] :
         Stage2Prompt(WrittenBy(stage1_results, who), use_worktrees) = ranking_prompt

\* Two entries by members of different names, one of them a diff.
C37_Witness ==
  /\ Prompted
  /\ Len(stage1_results) = 2
  /\ stage1_results[1].model # stage1_results[2].model
  /\ stage1_results[1].diff
  /\ stage1_results[2].response # <<>>


(***************************************************************************)
(* C38.  Across a session the main line is changed by at most one          *)
(* integration, made by the merge decision, of the change-set of exactly   *)
(* one member, and only when the session uses workspaces, the merge mode   *)
(* is auto or manual, the selected target is a Stage-1 entry with a        *)
(* workspace and a non-empty diff, the confirmation, if asked for, was     *)
(* given, and the commit in the target's workspace was made; and a merge   *)
(* result with status merged names that member, whose change-set is then   *)
(* the one on the main line.                                               *)
(***************************************************************************)
EntryOf(i) ==
  {k \in 1 .. Len(stage1_results) : stage1_results[k].member_index = i}

C38_AtMostOneIntegration ==
  /\ [](/\ Len(main_line) <= 1
        /\ main_line # <<>>
             => /\ use_worktrees
                /\ merge_mode \in {"auto", "manual"}
                /\ main_line = <<target_member>>
                /\ \E k \in EntryOf(target_member) :
                     stage1_results[k].member_id /\ stage1_results[k].diff
                /\ confirm_merge => merge_log.answer \in Affirmative
                /\ ~confirm_merge => merge_log.answer = NotAsked
                /\ merge_log.commit = "committed"
                /\ target_member \in commits
                /\ merge_result.status = "merged"
        /\ merge_result.status = "merged"
             => /\ main_line = <<target_member>>
                /\ merge_result.member = members[target_member + 1])
  /\ [][main_line' # main_line => pc = "merge" /\ pc' = "cleanup"]_vars

\* The top-ranked member's change-set was integrated after a confirmation.
C38_Witness ==
  /\ pc = "done"
  /\ merge_mode = "auto"
  /\ confirm_merge
  /\ Len(main_line) = 1
  /\ merge_result.status = "merged"


(***************************************************************************)
(* C39.  For the Stage-1 results, aggregate ranking and label mapping of a *)
(* session about to decide the merge, and for every confirm option,        *)
(* answer and outcome of the commit and the integration, the functions of  *)
(* WorktreeManager and _handle_merge select the same target member, return *)
(* the same status and name the same member: merge_top_ranked_changes and  *)
(* the auto mode, merge_member_changes and the manual mode for every       *)
(* member index given, and their dry_run variants and the dry-run mode.    *)
(***************************************************************************)
SameDecision(a, b) ==
  /\ a.status = b.status
  /\ a.target = b.target
  /\ a.member = b.member
  /\ a.integrated = b.integrated

MemberIndexes == MergeMembers \ {NoMember}

C39_ManagerAgreesWithHandleMerge ==
  pc = "merge"
    => \A confirm \in BOOLEAN, answer \in Answers,
          commit_out \in {"committed", "nothing", "error"},
          apply_out \in {"ok", "error"}, member \in MemberIndexes :
         /\ SameDecision(
              merge_top_ranked_changes(stage1_results, aggregate_rankings,
                                       label_to_model, FALSE, confirm, answer,
                                       commit_out, apply_out),
              HandleMerge(stage1_results, aggregate_rankings, label_to_model,
                          "auto", member, confirm, answer, commit_out, apply_out))
         /\ SameDecision(
              merge_member_changes(stage1_results, member, FALSE, confirm, answer,
                                   commit_out, apply_out),
              HandleMerge(stage1_results, aggregate_rankings, label_to_model,
                          "manual", member, confirm, answer, commit_out, apply_out))
         /\ SameDecision(
              merge_top_ranked_changes(stage1_results, aggregate_rankings,
                                       label_to_model, TRUE, confirm, answer,
                                       commit_out, apply_out),
              HandleMerge(stage1_results, aggregate_rankings, label_to_model,
                          "dry-run", member, confirm, answer, commit_out, apply_out))
         /\ SameDecision(
              merge_member_changes(stage1_results, member, TRUE, confirm, answer,
                                   commit_out, apply_out),
              HandleMerge(stage1_results, aggregate_rankings, label_to_model,
                          "dry-run", member, confirm, answer, commit_out, apply_out))

\* The top-ranked entry has no diff and a lower-ranked one has: both select
\* the lower-ranked member and merge it.
C39_Witness ==
  /\ pc = "merge"
  /\ Len(aggregate_rankings) = 2
  /\ MatchingModel(MembersWithDiffs(stage1_results),
                   Get(label_to_model, aggregate_rankings[1].label)) = <<>>
  /\ merge_top_ranked_changes(stage1_results, aggregate_rankings, label_to_model,
                              FALSE, FALSE, NotAsked, "committed", "ok").status
       = "merged"


(***************************************************************************)
(* C40.  Every session terminates with a result: under the scheduling of   *)
(* SpecLive (every invocation resolves, every command returns) the session *)
(* eventually hands back a result or the no-response error, so it never    *)
(* ends by an exception leaving run_full_council; and the scan of the auto *)
(* mode down the aggregate ranking looks at each ranked position at most   *)
(* once, in ranking order, and stops at the end of the ranking.            *)
(***************************************************************************)
ScanOfSession ==
  AutoVisits(MembersWithDiffs(stage1_results), aggregate_rankings, label_to_model)

C40_EverySessionTerminates ==
  /\ <>(returned \in {"result", "error"})
  /\ [](returned # "raised")
  /\ [](pc = "merge"
          => /\ Len(ScanOfSession) <= Len(aggregate_rankings)
             /\ \A k \in 1 .. Len(ScanOfSession) : ScanOfSession[k] = k)

====
